---- MODULE Spec2Model ----
(***************************************************************************)
(* Linear scaling relations for catalysis (cat-scaling).                   *)
(*                                                                         *)
(* The module models                                                       *)
(*   - scaling/data/species.py, reaction.py : Species, ReactionStep,       *)
(*     Reaction (value objects fed to the converter);                      *)
(*   - scaling/relation/relation.py : EadsRelation, DeltaERelation;        *)
(*   - scaling/relation/analysis.py : AdsorbToDeltaE (the converter);      *)
(*   - scaling/relation/builder.py  : Builder (composite descriptor,       *)
(*     _builder, build_traditional) and the adaptive builder.              *)
(*                                                                         *)
(* Python floats are modelled by exact rationals <<numerator, denominator>>*)
(* (denominator > 0, lowest terms): every operation below is the exact     *)
(* value of the float operation, rounding is not modelled.  A Python       *)
(* exception is the outcome [kind |-> "raise", error |-> <class name>], a  *)
(* returned value is [kind |-> "return", value |-> ...].                   *)
(***************************************************************************)
EXTENDS Integers, Sequences, FiniteSets, TLC

VARIABLES
    relation,   \* AdsorbToDeltaE.relation : the EadsRelation being converted
    reaction,   \* AdsorbToDeltaE.reaction : the Reaction (sequence of steps)
    data,       \* Builder.data : the Eads table, adsorbate name -> column
    op,         \* the last call made (its name)
    args,       \* the arguments of the last call
    result,     \* the outcome of the last call (return value or exception)
    warned,     \* the warnings the last call issued
    fits,       \* the regressions (LinearRegression().fit) the last call ran
    des,        \* a Descriptors object: its groups and its method
    _groups     \* Eads._groups : the adsorbate groups stored with the table

vars == <<relation, reaction, data, op, args, result, warned, fits, des, _groups>>

(***************************************************************************)
(* Exact rational arithmetic (the values of Python floats).                *)
(***************************************************************************)
Abs(n) == IF n < 0 THEN -n ELSE n

RECURSIVE GCD(_, _)
GCD(a, b) == IF b = 0 THEN a ELSE GCD(b, a % b)

\* n/d in lowest terms with a positive denominator (d # 0).
Rat(n, d) ==
    LET s == IF d < 0 THEN -1 ELSE 1
        g == GCD(Abs(n), Abs(d))
    IN  <<(s * n) \div g, (s * d) \div g>>

Num(n) == <<n, 1>>
Zero == Num(0)
One == Num(1)

\* The operations reduce before they multiply, so that an intermediate
\* product never outgrows the result.
RAdd(x, y) ==
    LET g == GCD(x[2], y[2])
    IN  Rat(x[1] * (y[2] \div g) + y[1] * (x[2] \div g), (x[2] \div g) * y[2])
RNeg(x) == <<-x[1], x[2]>>
RSub(x, y) == RAdd(x, RNeg(y))
RMul(x, y) ==
    LET g == GCD(Abs(x[1]), y[2])
        h == GCD(Abs(y[1]), x[2])
    IN  Rat((x[1] \div g) * (y[1] \div h), (x[2] \div h) * (y[2] \div g))
RDiv(x, y) == RMul(x, Rat(y[2], y[1]))
RLt(x, y) == RSub(x, y)[1] < 0
RLeq(x, y) == RSub(x, y)[1] <= 0
RAbs(x) == <<Abs(x[1]), x[2]>>

\* math.isclose(a, b, abs_tol=tol) with the default rel_tol = 1e-9:
\* |a - b| <= max(rel_tol * max(|a|, |b|), abs_tol).  Every call in the
\* source compares with b = 1.0 under an abs_tol >= 1e-4 and |a| < 10^5, so
\* the relative term never exceeds the absolute one.
isclose(a, b, abs_tol) == RLeq(RAbs(RSub(a, b)), abs_tol)

\* Element-wise vector operations (numpy arrays of equal length), from
\* element i on.
RECURSIVE VAddFrom(_, _, _)
VAddFrom(u, v, i) ==
    IF i > Len(u) THEN <<>> ELSE <<RAdd(u[i], v[i])>> \o VAddFrom(u, v, i + 1)

RECURSIVE VMulFrom(_, _, _)
VMulFrom(u, v, i) ==
    IF i > Len(u) THEN <<>> ELSE <<RMul(u[i], v[i])>> \o VMulFrom(u, v, i + 1)

RECURSIVE VScaleFrom(_, _, _)
VScaleFrom(c, v, i) ==
    IF i > Len(v) THEN <<>> ELSE <<RMul(c, v[i])>> \o VScaleFrom(c, v, i + 1)

VAdd(u, v) == VAddFrom(u, v, 1)
VMul(u, v) == VMulFrom(u, v, 1)
VScale(c, v) == VScaleFrom(c, v, 1)
VSub(u, v) == VAdd(u, VScale(RNeg(One), v))
Zeros(n) == [i \in 1..n |-> Zero]
Ones(n) == [i \in 1..n |-> One]

Raise(e) == [kind |-> "raise", error |-> e]
Return(v) == [kind |-> "return", value |-> v]
NoResult == [kind |-> "none"]
NoData == <<>>

\* Python's None, next to the floats and strings a parameter may be given.
None == [type |-> "NoneType", value |-> <<0, 1>>, text |-> ""]

\* Descriptors({}): no groups, no method declared.
NoDescriptors == [groups |-> <<>>, method |-> None]

(***************************************************************************)
(* Species, ReactionStep, Reaction (scaling/data).                         *)
(***************************************************************************)
\* Species(name, energy, adsorbed, correction, state): species.py:14-40.
\* The energy and correction setters store float(value); energy is never
\* None (the setter raises TypeError on it).
Species(name, energy, adsorbed, correction, state) ==
    [name |-> name, energy |-> energy, adsorbed |-> adsorbed,
     correction |-> correction, state |-> state]

\* The species the reactions below are written with: two adsorbed species
\* and one free molecule (the species of tests/relation/test_analysis.py,
\* with corrections added).
species_A == Species("A", Num(-1), TRUE, Zero, "NA")
species_B == Species("B", Num(-10), TRUE, Rat(1, 2), "NA")
species_H2O == Species("H2O", Num(-8), FALSE, Rat(1, 4), "g")
SpeciesPool == <<species_A, species_B, species_H2O>>

\* A stoichiometric map (dict[Species, float]) is the sequence of its items
\* in insertion order, [spec, num], with pairwise distinct keys.
StoichNumbers == {1, 2}
MaxSide == 2

\* The maps with at most k items whose keys are SpeciesPool[i], ... in the
\* pool's order (the sums below are exact, so the order of the items does
\* not change a result).
RECURSIVE SidesFrom(_, _)
SidesFrom(i, k) ==
    IF i > Len(SpeciesPool) \/ k = 0
    THEN {<<>>}
    ELSE SidesFrom(i + 1, k)
         \cup {<<[spec |-> SpeciesPool[i], num |-> Num(n)]>> \o s :
                 n \in StoichNumbers, s \in SidesFrom(i + 1, k - 1)}

Sides == SidesFrom(1, MaxSide)

\* ReactionStep(reactants, products): reaction.py:18-47.
ReactionStep(reactants, products) ==
    [reactants |-> reactants, products |-> products]

StepPool == {ReactionStep(r, p) : r \in Sides, p \in Sides}

\* Reaction(reaction_steps): reaction.py:207-234.  The setter rejects a
\* list holding two equal steps, so a Reaction is a sequence of pairwise
\* different steps.
NoDuplicate(steps) ==
    \A i, j \in 1..Len(steps) : i # j => steps[i] # steps[j]

(***************************************************************************)
(* EadsRelation and DeltaERelation (scaling/relation/relation.py).         *)
(***************************************************************************)
\* EadsRelation(coefficients, intercepts, metrics, ratios): the four dicts,
\* each a function on its keys.
EadsRelation(coefficients, intercepts, metrics, ratios) ==
    [coefficients |-> coefficients, intercepts |-> intercepts,
     metrics |-> metrics, ratios |-> ratios]

\* EadsRelation.dim: len(next(iter(self.coefficients.values()))).  next()
\* on the iterator of an empty dict raises StopIteration; the coefficients
\* setter makes every list the same length, so the first list's length is
\* any list's length.
dim(rel) ==
    IF DOMAIN rel.coefficients = {}
    THEN Raise("StopIteration")
    ELSE Return(Len(rel.coefficients[CHOOSE k \in DOMAIN rel.coefficients : TRUE]))

\* DeltaERelation.coefficients setter: a list of numpy arrays of one length.
\* (The list convert() passes is a list of numpy arrays, so the two type
\* checks pass.)
DeltaERelation_coefficients(coefficients) ==
    IF Cardinality({Len(coefficients[i]) : i \in 1..Len(coefficients)}) > 1
    THEN Raise("ValueError")
    ELSE Return([class |-> "DeltaERelation", coefficients |-> coefficients])

\* DeltaERelation.__init__(self, coefficients): a call naming a parameter
\* the signature does not have raises TypeError before the body runs.
DeltaERelation_params == {"coefficients"}

DeltaERelation(kwargs) ==
    IF ~(DOMAIN kwargs \subseteq DeltaERelation_params)
    THEN Raise("TypeError")
    ELSE DeltaERelation_coefficients(kwargs.coefficients)

(***************************************************************************)
(* AdsorbToDeltaE (scaling/relation/analysis.py).                          *)
(***************************************************************************)
\* temp_arr with the lookups defaulting to zeros (dict.get) instead of
\* raising KeyError.
temp_arr_default(rel, spec) ==
    LET fitted == spec.name \in DOMAIN rel.coefficients /\ spec.name \in DOMAIN rel.intercepts
        width == Len(rel.coefficients[CHOOSE k \in DOMAIN rel.coefficients : TRUE])
        arr == IF fitted
               THEN Append(rel.coefficients[spec.name], rel.intercepts[spec.name])
               ELSE Zeros(width + 1)
        last == Len(arr)
        with_energy ==
            IF spec.adsorbed
            THEN [arr EXCEPT ![last] = RAdd(@, spec.energy)]
            ELSE arr
    IN  Return([with_energy EXCEPT ![last] = RAdd(@, spec.correction)])

\* Lines 67-81 (reactants) and 88-100 (products): the species' array
\* [coef_0, ..., coef_n, intercept], looked up under spec.name for every
\* species, with the energy added to the last slot for an adsorbed species
\* and the correction for every species.  A missing key raises KeyError.
temp_arr(rel, spec) ==
    IF spec.name \notin DOMAIN rel.coefficients
    THEN Raise("KeyError")
    ELSE IF spec.name \notin DOMAIN rel.intercepts
    THEN Raise("KeyError")
    ELSE LET arr == Append(rel.coefficients[spec.name], rel.intercepts[spec.name])
             last == Len(arr)
             with_energy ==
                 IF spec.adsorbed
                 THEN [arr EXCEPT ![last] = RAdd(@, spec.energy)]
                 ELSE arr
         IN  Return([with_energy EXCEPT ![last] = RAdd(@, spec.correction)])

\* The loop over one side of the step, from item i on: coef_array -= num *
\* temp_arr (sign -1, line 84) or coef_array += num * temp_arr (sign +1,
\* line 102).  numpy raises ValueError when the two shapes do not broadcast.
RECURSIVE side_loop(_, _, _, _, _)
side_loop(rel, side, i, sign, coef_array) ==
    IF i > Len(side)
    THEN Return(coef_array)
    ELSE LET t == temp_arr(rel, side[i].spec)
         IN  IF t.kind = "raise"
             THEN t
             ELSE IF Len(t.value) # Len(coef_array)
             THEN Raise("ValueError")
             ELSE side_loop(rel, side, i + 1, sign,
                     VAdd(coef_array, VScale(RMul(sign, side[i].num), t.value)))

\* _convert_step with the reactants added instead of subtracted (the minus
\* sign of line 84 lost).
_convert_step_reactants_added(rel, step) ==
    LET d == dim(rel)
    IN  IF d.kind = "raise"
        THEN d
        ELSE LET r == side_loop(rel, step.reactants, 1, One, Zeros(d.value + 1))
             IN  IF r.kind = "raise"
                 THEN r
                 ELSE side_loop(rel, step.products, 1, One, r.value)

\* AdsorbToDeltaE._convert_step(step): lines 54-104.
_convert_step(rel, step) ==
    LET d == dim(rel)
    IN  IF d.kind = "raise"
        THEN d
        ELSE LET r == side_loop(rel, step.reactants, 1, RNeg(One), Zeros(d.value + 1))
             IN  IF r.kind = "raise"
                 THEN r
                 ELSE side_loop(rel, step.products, 1, One, r.value)

\* The list comprehension of lines 112-114: the steps in order; the first
\* exception ends it.
RECURSIVE convert_steps(_, _, _, _)
convert_steps(rel, steps, i, coefs) ==
    IF i > Len(steps)
    THEN Return(coefs)
    ELSE LET c == _convert_step(rel, steps[i])
         IN  IF c.kind = "raise"
             THEN c
             ELSE convert_steps(rel, steps, i + 1, Append(coefs, c.value))

\* AdsorbToDeltaE.convert(): lines 106-120.
convert(rel, rxn) ==
    LET coefs == convert_steps(rel, rxn, 1, <<>>)
    IN  IF coefs.kind = "raise"
        THEN coefs
        ELSE DeltaERelation([reaction |-> rxn, coefficients |-> coefs.value])

\* temp_arr = self.relation.coefficients[spec.name], the stored list itself:
\* what is appended to it is appended to the relation's list.
copy_none(lst) == [stored |-> TRUE, items |-> lst]

\* copy.copy(list) (lines 67 and 88): a new list object with the same
\* items; appending to it and assigning in it do not reach the stored list.
copy_copy(lst) == [stored |-> FALSE, items |-> lst]

\* The relation after lines 67-81 (88-100) ran for spec: append and += act
\* on temp_arr, which is the stored list only if it was not copied.  A
\* KeyError (line 67 or the argument of line 68) comes before any append.
temp_arr_relation(rel, spec) ==
    IF spec.name \notin DOMAIN rel.coefficients
    THEN rel
    ELSE IF spec.name \notin DOMAIN rel.intercepts
    THEN rel
    ELSE IF copy_copy(rel.coefficients[spec.name]).stored
    THEN [rel EXCEPT !.coefficients[spec.name] = temp_arr(rel, spec).value]
    ELSE rel

\* The relation after the loop over one side, from item i on; the loop ends
\* at the first exception (width is the length of coef_array).
RECURSIVE side_loop_relation(_, _, _, _)
side_loop_relation(rel, side, i, width) ==
    IF i > Len(side)
    THEN rel
    ELSE IF temp_arr(rel, side[i].spec).kind = "raise"
    THEN rel
    ELSE IF Len(temp_arr(rel, side[i].spec).value) # width
    THEN temp_arr_relation(rel, side[i].spec)
    ELSE side_loop_relation(temp_arr_relation(rel, side[i].spec), side, i + 1, width)

\* The relation after _convert_step(step): nothing is touched when dim
\* raises, and the products are not reached when the reactants raise.
_convert_step_relation(rel, step) ==
    IF dim(rel).kind = "raise"
    THEN rel
    ELSE IF side_loop(rel, step.reactants, 1, RNeg(One), Zeros(dim(rel).value + 1)).kind = "raise"
    THEN side_loop_relation(rel, step.reactants, 1, dim(rel).value + 1)
    ELSE side_loop_relation(
             side_loop_relation(rel, step.reactants, 1, dim(rel).value + 1),
             step.products, 1, dim(rel).value + 1)

\* The relation after convert(): the steps in order up to the first that
\* raises.
RECURSIVE convert_relation(_, _, _)
convert_relation(rel, steps, i) ==
    IF i > Len(steps)
    THEN rel
    ELSE IF _convert_step(rel, steps[i]).kind = "raise"
    THEN _convert_step_relation(rel, steps[i])
    ELSE convert_relation(_convert_step_relation(rel, steps[i]), steps, i + 1)

(***************************************************************************)
(* The converter's inputs.                                                 *)
(***************************************************************************)
\* The names a fitted entry may be stored under: the species' bare names
\* and the "*"-prefixed names Builder stores (the columns of the table).
KeyPool == <<"A", "B", "H2O", "*A", "*B">>
DescriptorNames == <<"*A", "*C", "*E", "*G">>
MaxDim == 2
MaxSteps == 2

KeyIndex(name) == CHOOSE k \in 1..Len(KeyPool) : KeyPool[k] = name

\* The fitted values of an entry: different for every key and every slot.
FittedCoefficients(name, d) == [j \in 1..d |-> Rat(3 * KeyIndex(name) + j - 5, 2)]
FittedIntercept(name) == Num(KeyIndex(name) - 3)

\* An EadsRelation with d descriptors and a fitted entry for every key of
\* keys (the setters of relation.py accept it).
FittedRelation(keys, d) ==
    EadsRelation(
        [name \in keys |-> FittedCoefficients(name, d)],
        [name \in keys |-> FittedIntercept(name)],
        [name \in keys |-> One],
        [name \in keys |-> [desc \in {DescriptorNames[j] : j \in 1..d} |-> Rat(1, d)]])

Relations ==
    {FittedRelation({KeyPool[k] : k \in K}, d) :
        K \in SUBSET (1..Len(KeyPool)), d \in 1..MaxDim}

\* One adsorbed or free species turning into another.
ChainSteps ==
    {ReactionStep(<<[spec |-> SpeciesPool[ij[1]], num |-> One]>>,
                  <<[spec |-> SpeciesPool[ij[2]], num |-> One]>>) :
        ij \in {p \in (1..Len(SpeciesPool)) \X (1..Len(SpeciesPool)) : p[1] # p[2]}}

RECURSIVE SeqsUpTo(_, _)
SeqsUpTo(S, n) ==
    IF n = 0
    THEN {<<>>}
    ELSE SeqsUpTo(S, n - 1)
         \cup {Append(q, x) : q \in {r \in SeqsUpTo(S, n - 1) : Len(r) = n - 1}, x \in S}

\* Every single-step Reaction over StepPool, and the Reactions of up to
\* MaxSteps chain steps.
Reactions ==
    {<<step>> : step \in StepPool}
    \cup {r \in SeqsUpTo(ChainSteps, MaxSteps) : NoDuplicate(r)}

InitConverter ==
    /\ relation \in Relations
    /\ reaction \in Reactions
    /\ data = NoData
    /\ op = "init"
    /\ args = <<>>
    /\ result = NoResult
    /\ warned = {}
    /\ fits = 0
    /\ des = NoDescriptors
    /\ _groups = None

\* converter._convert_step(reaction[i])
ConvertStep(i) ==
    /\ data = NoData
    /\ i \in 1..Len(reaction)
    /\ op' = "_convert_step"
    /\ args' = <<i>>
    /\ result' = _convert_step(relation, reaction[i])
    /\ relation' = _convert_step_relation(relation, reaction[i])
    /\ warned' = {}
    /\ UNCHANGED <<reaction, data, fits, des, _groups>>

\* converter.convert()
Convert ==
    /\ data = NoData
    /\ op' = "convert"
    /\ args' = <<>>
    /\ result' = convert(relation, reaction)
    /\ relation' = convert_relation(relation, reaction, 1)
    /\ warned' = {}
    /\ UNCHANGED <<reaction, data, fits, des, _groups>>

NextConverter ==
    \/ \E i \in 1..MaxSteps : ConvertStep(i)
    \/ Convert

SpecConverter == InitConverter /\ [][NextConverter]_vars

(***************************************************************************)
(* Claims about the converter.                                             *)
(***************************************************************************)
\* The step the last _convert_step call was given.
LastStep == reaction[args[1]]

Items(step) == step.reactants \o step.products

\* The species has a fitted entry under its name.
Fitted(rel, spec) ==
    /\ spec.name \in DOMAIN rel.coefficients
    /\ spec.name \in DOMAIN rel.intercepts

\* The species has a fitted entry under "*" + its name (the key Builder
\* stores for the table column of an adsorbed species).
FittedStarred(rel, spec) ==
    /\ ("*" \o spec.name) \in DOMAIN rel.coefficients
    /\ ("*" \o spec.name) \in DOMAIN rel.intercepts

\* Slot j of the contribution the specification gives a species: for an
\* adsorbed species the coefficient list followed by intercept + energy +
\* correction, for a free species zeros followed by energy + correction.
ContributionSlot(rel, spec, j, n) ==
    IF spec.adsorbed
    THEN IF j < n
         THEN rel.coefficients[spec.name][j]
         ELSE RAdd(RAdd(rel.intercepts[spec.name], spec.energy), spec.correction)
    ELSE IF j < n THEN Zero ELSE RAdd(spec.energy, spec.correction)

\* Slot j of the sum over the items of one side of num * contribution.
RECURSIVE SideSlotSum(_, _, _, _, _)
SideSlotSum(rel, side, j, n, i) ==
    IF i > Len(side)
    THEN Zero
    ELSE RAdd(RMul(side[i].num, ContributionSlot(rel, side[i].spec, j, n)),
              SideSlotSum(rel, side, j, n, i + 1))

\* (sum over products) - (sum over reactants), slot by slot, n slots.
ProductsMinusReactants(rel, step, n) ==
    [j \in 1..n |->
        RSub(SideSlotSum(rel, step.products, j, n, 1),
             SideSlotSum(rel, step.reactants, j, n, 1))]

AllAdsorbed(step) == \A i \in 1..Len(Items(step)) : Items(step)[i].spec.adsorbed

AllFitted(rel, step) ==
    \A i \in 1..Len(Items(step)) : Fitted(rel, Items(step)[i].spec)

\* C1: _convert_step on a step whose species are all adsorbed and all have
\* a fitted entry returns a vector of length dim + 1 that equals the sum
\* over the products of n * v(s) minus the sum over the reactants of
\* n * v(s), v(s) being the coefficient list of s followed by intercept(s)
\* + energy(s) + correction(s); it returns whenever dim is defined.
C1_ConvertStepAdsorbed ==
    (op = "_convert_step" /\ AllAdsorbed(LastStep) /\ AllFitted(relation, LastStep)) =>
        /\ DOMAIN relation.coefficients # {} => result.kind = "return"
        /\ result.kind = "return" =>
            /\ dim(relation).kind = "return"
            /\ Len(result.value) = dim(relation).value + 1
            /\ result.value =
                   ProductsMinusReactants(relation, LastStep, dim(relation).value + 1)

\* A step with adsorbed species on both sides, one of them twice, was
\* converted.
C1_Witness ==
    /\ op = "_convert_step"
    /\ AllAdsorbed(LastStep) /\ AllFitted(relation, LastStep)
    /\ Len(LastStep.reactants) = 2 /\ Len(LastStep.products) = 1
    /\ LastStep.reactants[1].num = Num(2)
    /\ result.kind = "return"
    /\ dim(relation).value = 2
    /\ result.value # Zeros(3)

\* Every adsorbed species of the step has a fitted entry.
AdsorbedFitted(rel, step) ==
    \A i \in 1..Len(Items(step)) :
        Items(step)[i].spec.adsorbed => Fitted(rel, Items(step)[i].spec)

HasFree(step) == \E i \in 1..Len(Items(step)) : ~Items(step)[i].spec.adsorbed

\* C2: a free species of a step needs no fitted entry: whenever the
\* adsorbed species of the step are fitted, _convert_step returns the sum
\* over the products minus the sum over the reactants of n * contribution,
\* a free species contributing zero in every descriptor slot and energy +
\* correction in the constant slot.
C2_FreeSpeciesNeedsNoEntry ==
    (/\ op = "_convert_step"
     /\ HasFree(LastStep)
     /\ AdsorbedFitted(relation, LastStep)
     /\ DOMAIN relation.coefficients # {}) =>
        /\ result.kind = "return"
        /\ result.value =
               ProductsMinusReactants(relation, LastStep, dim(relation).value + 1)

\* The step *A + H2O -> *B of the tests, every stoichiometric number 1.
StepAWaterB ==
    ReactionStep(<<[spec |-> species_A, num |-> One], [spec |-> species_H2O, num |-> One]>>,
                 <<[spec |-> species_B, num |-> One]>>)

\* C3: for *A + H2O -> *B with A and B fitted, the returned vector has
\* descriptor part coeffs(B) - coeffs(A) and constant term (intercept(B) +
\* E_H2O + corr_H2O) - (intercept(A) + E_A + corr_A).
C3_SignConvention ==
    (/\ op = "_convert_step"
     /\ LastStep = StepAWaterB
     /\ Fitted(relation, species_A)
     /\ Fitted(relation, species_B)) =>
        /\ result.kind = "return"
        /\ Len(result.value) = dim(relation).value + 1
        /\ \A j \in 1..dim(relation).value :
               result.value[j] =
                   RSub(relation.coefficients["B"][j], relation.coefficients["A"][j])
        /\ result.value[Len(result.value)] =
               RSub(RAdd(RAdd(relation.intercepts["B"], species_H2O.energy),
                         species_H2O.correction),
                    RAdd(RAdd(relation.intercepts["A"], species_A.energy),
                         species_A.correction))

\* The exceptions that report absent fitted data: the failed lookup of a
\* species (KeyError) and dim on a relation with no entry (StopIteration).
MissingDataErrors == {"KeyError", "StopIteration"}

\* Some step of the reaction has an adsorbed species without fitted entry.
AdsorbedUnfitted(rel, rxn) ==
    \E s \in 1..Len(rxn) : ~AdsorbedFitted(rel, rxn[s])

\* C4: convert fails with a missing-data error when an adsorbed species of
\* any step has no fitted entry, and returns no DeltaERelation then.
C4_ConvertMissingEntry ==
    (op = "convert" /\ AdsorbedUnfitted(relation, reaction)) =>
        /\ result.kind = "raise"
        /\ result.error \in MissingDataErrors

\* convert was called on a two-step reaction whose first step converts and
\* whose second step has an adsorbed species without entry.
C4_Witness ==
    /\ op = "convert"
    /\ Len(reaction) = 2
    /\ AllFitted(relation, reaction[1])
    /\ ~AdsorbedFitted(relation, reaction[2])
    /\ result = Raise("KeyError")

\* Every adsorbed species of the reaction has a fitted entry under "*" +
\* name, and the relation holds only such entries (the test fixture).
FixtureStyle(rel, rxn) ==
    /\ DOMAIN rel.coefficients = {"*A", "*B"}
    /\ \A s \in 1..Len(rxn) : \A i \in 1..Len(Items(rxn[s])) :
           Items(rxn[s])[i].spec.adsorbed => FittedStarred(rel, Items(rxn[s])[i].spec)

\* C5: convert, given a Reaction whose adsorbed species X are fitted under
\* the key "*X", returns a DeltaERelation holding one vector per step, in
\* step order, each of length dim + 1.
C5_ConvertFixture ==
    (/\ op = "convert"
     /\ Len(reaction) >= 1
     /\ FixtureStyle(relation, reaction)) =>
        /\ result.kind = "return"
        /\ result.value.class = "DeltaERelation"
        /\ Len(result.value.coefficients) = Len(reaction)
        /\ \A s \in 1..Len(reaction) :
               Len(result.value.coefficients[s]) = dim(relation).value + 1

\* C29: _convert_step and convert leave their inputs unchanged: after any
\* number of conversions, successful or failing, the EadsRelation's
\* coefficient lists and intercepts and the Reaction's steps are what they
\* were, so that converting the same step again yields the same outcome.
C29_ConversionLeavesInputs ==
    [][/\ relation' = relation
       /\ reaction' = reaction
       /\ (op = "_convert_step" /\ op' = "_convert_step" /\ args' = args)
              => result' = result]_vars

\* The second step of a two-step reaction was converted, one of its species
\* fitted with two coefficients.
C29_Witness ==
    /\ op = "_convert_step"
    /\ args = <<2>>
    /\ Len(reaction) = 2
    /\ result.kind = "return"
    /\ Len(result.value) = 3
    /\ \E name \in DOMAIN relation.coefficients : Len(relation.coefficients[name]) = 2

(***************************************************************************)
(* Builder (scaling/relation/builder.py).                                  *)
(***************************************************************************)
RECURSIVE VSum(_, _)
VSum(v, i) == IF i > Len(v) THEN Zero ELSE RAdd(v[i], VSum(v, i + 1))

\* The sums of a regression are taken over integers: a vector v is
\* VInts(v, d) / d for its common denominator d = VDen(v, 1).
LCM(a, b) == (a \div GCD(a, b)) * b

RECURSIVE VDen(_, _)
VDen(v, i) == IF i > Len(v) THEN 1 ELSE LCM(v[i][2], VDen(v, i + 1))

RECURSIVE VInts(_, _, _)
VInts(v, d, i) ==
    IF i > Len(v) THEN <<>> ELSE <<v[i][1] * (d \div v[i][2])>> \o VInts(v, d, i + 1)

RECURSIVE ISum(_, _)
ISum(v, i) == IF i > Len(v) THEN 0 ELSE v[i] + ISum(v, i + 1)

RECURSIVE IDot(_, _, _)
IDot(u, v, i) == IF i > Len(u) THEN 0 ELSE u[i] * v[i] + IDot(u, v, i + 1)

\* n times the centred sums of squares and products of x and y, in units
\* of 1 / dx and 1 / dy: sxx = n * sum(X * X) - sum(X) ^ 2, and so on.
Moments(x, y) ==
    LET n == Len(x)
        dx == VDen(x, 1)
        dy == VDen(y, 1)
        X == VInts(x, dx, 1)
        Y == VInts(y, dy, 1)
        sx == ISum(X, 1)
        sy == ISum(Y, 1)
    IN  [n |-> n, dx |-> dx, dy |-> dy, sx |-> sx, sy |-> sy,
         sxx |-> n * IDot(X, X, 1) - sx * sx,
         sxy |-> n * IDot(X, Y, 1) - sx * sy,
         syy |-> n * IDot(Y, Y, 1) - sy * sy]

\* sklearn.linear_model.LinearRegression().fit(x, y) with one feature:
\* ordinary least squares with an intercept, coef_ = Sxy / Sxx and
\* intercept_ = mean(y) - coef_ * mean(x).  A constant x has no slope to
\* fit: the least-squares solution of least norm is coef_ = 0.
LinearRegression_fit(x, y) ==
    LET m == Moments(x, y)
        coef == IF m.sxx = 0
                THEN Zero
                ELSE RMul(Rat(m.sxy, m.sxx), Rat(m.dx, m.dy))
    IN  [coef_ |-> coef,
         intercept_ |-> RSub(Rat(m.sy, m.n * m.dy),
                             RMul(coef, Rat(m.sx, m.n * m.dx)))]

\* LinearRegression.score(x, y) on the data of the fit: the coefficient of
\* determination 1 - u / v, u the residual and v the total sum of squares.
\* For the least-squares line u = v - coef_ * Sxy, so the score is
\* coef_ * Sxy / Syy; for a constant y (u = v = 0) sklearn returns 1.0.
LinearRegression_score(reg, x, y) ==
    LET m == Moments(x, y)
    IN  IF m.syy = 0
        THEN One
        ELSE RMul(reg.coef_, RMul(Rat(m.sxy, m.syy), Rat(m.dy, m.dx)))

\* Eads.get_adsorbate(name): the column of the table under that name; a
\* name the table does not have raises KeyError.
get_adsorbate(table, name) ==
    IF name \in DOMAIN table THEN Return(table[name]) ELSE Raise("KeyError")

\* A dict of ratios (name -> ratio) is the sequence of its items in
\* insertion order, [name, ratio].
RECURSIVE RatioSum(_, _)
RatioSum(ratios, i) ==
    IF i > Len(ratios) THEN Zero ELSE RAdd(ratios[i].ratio, RatioSum(ratios, i + 1))

AbsTolComposite == Rat(1, 10000)

\* The rows child_descriptors * ratios[:, np.newaxis] summed over axis 0,
\* from item i on (lines 211-215).
RECURSIVE unweighted_sum(_, _, _, _)
unweighted_sum(table, ratios, i, n) ==
    IF i > Len(ratios)
    THEN Zeros(n)
    ELSE VAdd(table[ratios[i].name], unweighted_sum(table, ratios, i + 1, n))

RECURSIVE weighted_sum(_, _, _, _)
weighted_sum(table, ratios, i, n) ==
    IF i > Len(ratios)
    THEN Zeros(n)
    ELSE VAdd(VScale(ratios[i].ratio, table[ratios[i].name]),
              weighted_sum(table, ratios, i + 1, n))

\* Builder._build_composite_descriptor(spec_ratios): lines 198-215.
_build_composite_descriptor_fetch_first(table, spec_ratios) ==
    IF \E i \in 1..Len(spec_ratios) : spec_ratios[i].name \notin DOMAIN table
    THEN Raise("KeyError")
    ELSE IF ~isclose(RatioSum(spec_ratios, 1), One, AbsTolComposite)
    THEN Raise("ValueError")
    ELSE Return(weighted_sum(table, spec_ratios, 1,
                    Len(table[spec_ratios[1].name])))

_build_composite_descriptor(table, spec_ratios) ==
    IF ~isclose(RatioSum(spec_ratios, 1), One, AbsTolComposite)
    THEN Raise("ValueError")
    ELSE IF \E i \in 1..Len(spec_ratios) : spec_ratios[i].name \notin DOMAIN table
    THEN Raise("KeyError")
    ELSE Return(weighted_sum(table, spec_ratios, 1,
                    Len(table[spec_ratios[1].name])))

\* [float(reg.coef_[0] * ratio) for ratio in ratios.values()], from item i
\* on (line 280).
RECURSIVE map_coefs_unscaled(_, _, _)
map_coefs_unscaled(coef, ratios, i) ==
    IF i > Len(ratios)
    THEN <<>>
    ELSE <<coef>> \o map_coefs_unscaled(coef, ratios, i + 1)

RECURSIVE map_coefs(_, _, _)
map_coefs(coef, ratios, i) ==
    IF i > Len(ratios)
    THEN <<>>
    ELSE <<RMul(coef, ratios[i].ratio)>> \o map_coefs(coef, ratios, i + 1)

\* Builder._builder(spec_name, ratios): lines 267-286.  Returns the tuple
\* (coefs, intercept, metrics).
_builder(table, spec_name, ratios) ==
    LET composite_descriptor == _build_composite_descriptor(table, ratios)
        target == get_adsorbate(table, spec_name)
    IN  IF composite_descriptor.kind = "raise"
        THEN composite_descriptor
        ELSE IF target.kind = "raise"
        THEN target
        ELSE LET reg == LinearRegression_fit(composite_descriptor.value, target.value)
             IN  Return([coefs |-> map_coefs(reg.coef_, ratios, 1),
                         intercept |-> reg.intercept_,
                         metrics |-> LinearRegression_score(reg, composite_descriptor.value,
                                                            target.value)])

\* EadsRelation.__init__ through the four property setters (lines 55-68):
\* the coefficient lists share one length (lines 126-127), a metric below
\* the threshold 0.5 warns (lines 192-193), every ratio dict sums to one
\* within 0.01 and all have one length (lines 219-234).
LowMetric == Rat(1, 2)
AbsTolRatios == Rat(1, 100)

\* The coefficients setter (lines 107-129): the value stored, or the error.
\* The dicts given map strings to lists of floats, so the type checks of
\* lines 112-121 pass.
EadsRelation_coefficients_unchecked(coefficients) ==
    Return(coefficients)

EadsRelation_coefficients(coefficients) ==
    IF Cardinality({Len(coefficients[name]) : name \in DOMAIN coefficients}) > 1
    THEN Raise("ValueError")
    ELSE Return(coefficients)

EadsRelation_init(coefficients, intercepts, metrics, ratios) ==
    IF EadsRelation_coefficients(coefficients).kind = "raise"
    THEN [result |-> Raise("ValueError"), warned |-> {}]
    ELSE LET low == IF \E name \in DOMAIN metrics : RLt(metrics[name], LowMetric)
                    THEN {"Low metrics"}
                    ELSE {}
         IN  IF \/ \E name \in DOMAIN ratios :
                       ~isclose(RatioSum(ratios[name], 1), One, AbsTolRatios)
                \/ \E a \in DOMAIN ratios, b \in DOMAIN ratios :
                       Len(ratios[a]) # Len(ratios[b])
             THEN [result |-> Raise("ValueError"), warned |-> low]
             ELSE [result |-> Return(EadsRelation(coefficients, intercepts, metrics, ratios)),
                   warned |-> low]

(***************************************************************************)
(* Builder.build_adaptive(descriptors, step_length): the adaptive method   *)
(* of section 4.2.  A step_length is a Python value, [type, value].        *)
(***************************************************************************)
\* Float(v) is the float v; Str(t) is the string t, which has no numeric value.
Float(v) == [type |-> "float", value |-> v, text |-> ""]
Str(t) == [type |-> "str", value |-> Zero, text |-> t]

StepLengthMax == Num(100)
LargeStep == Num(5)
SmallStep == Rat(1, 10)

\* Input validation: a numeric step_length strictly inside (0, 100) and
\* exactly two distinct descriptor names, else a configuration error; a
\* step_length above 5 or below 0.1 warns.
check_adaptive_closed_range(descriptors, step_length) ==
    IF \/ step_length.type # "float"
       \/ ~RLt(Zero, step_length.value)
       \/ RLt(StepLengthMax, step_length.value)
    THEN Raise("ValueError")
    ELSE IF Len(descriptors) # 2 \/ descriptors[1] = descriptors[2]
    THEN Raise("ValueError")
    ELSE Return((IF RLt(LargeStep, step_length.value)
                 THEN {"Large step length may harm accuracy"}
                 ELSE {})
                \cup (IF RLt(step_length.value, SmallStep)
                      THEN {"Small step length may slow down searching"}
                      ELSE {}))

check_adaptive(descriptors, step_length) ==
    IF \/ step_length.type # "float"
       \/ ~RLt(Zero, step_length.value)
       \/ ~RLt(step_length.value, StepLengthMax)
    THEN Raise("ValueError")
    ELSE IF Len(descriptors) # 2 \/ descriptors[1] = descriptors[2]
    THEN Raise("ValueError")
    ELSE Return((IF RLt(LargeStep, step_length.value)
                 THEN {"Large step length may harm accuracy"}
                 ELSE {})
                \cup (IF RLt(step_length.value, SmallStep)
                      THEN {"Small step length may slow down searching"}
                      ELSE {}))

\* The ratio grid 0, step, 2 * step, ..., 1 for step = step_length / 100,
\* indexed from 0: the multiples of step below 1, then 1 itself.
grid_last(step_length) ==
    (100 * step_length[2] + step_length[1] - 1) \div step_length[1]

grid_ratio_unclamped(step_length, k) ==
    RMul(Num(k), RDiv(step_length, Num(100)))

grid_ratio(step_length, k) ==
    IF k < grid_last(step_length)
    THEN RMul(Num(k), RDiv(step_length, Num(100)))
    ELSE One

\* The ratios dict {descriptor_0: r, descriptor_1: 1 - r}.
adaptive_ratios(descriptors, r) ==
    <<[name |-> descriptors[1], ratio |-> r],
      [name |-> descriptors[2], ratio |-> RSub(One, r)]>>

\* The score recorded for the k-th grid ratio (steps 2a and 2b).
grid_score(table, spec_name, descriptors, step_length, k) ==
    _builder(table, spec_name,
             adaptive_ratios(descriptors, grid_ratio(step_length, k))).value.metrics

\* Step 2: the scores recorded for the grid ratios lo..hi, in ascending
\* order of the ratio.
RECURSIVE grid_scores(_, _, _, _, _, _)
grid_scores(table, spec_name, descriptors, step_length, lo, hi) ==
    IF lo = hi
    THEN <<grid_score(table, spec_name, descriptors, step_length, lo)>>
    ELSE grid_scores(table, spec_name, descriptors, step_length, lo, (lo + hi) \div 2)
         \o grid_scores(table, spec_name, descriptors, step_length, ((lo + hi) \div 2) + 1, hi)

\* max(scores[lo..hi])
RECURSIVE max_score(_, _, _)
max_score(scores, lo, hi) ==
    IF lo = hi
    THEN scores[lo]
    ELSE LET left == max_score(scores, lo, (lo + hi) \div 2)
             right == max_score(scores, ((lo + hi) \div 2) + 1, hi)
         IN  IF RLt(left, right) THEN right ELSE left

\* Step 3: the position of the highest score, the first one in ascending
\* order of the ratio when several share it.
best_ratio_last(scores) ==
    LET highest == max_score(scores, 1, Len(scores))
        at == {k \in 1..Len(scores) : scores[k] = highest}
    IN  CHOOSE k \in at : \A j \in at : j <= k

best_ratio(scores) ==
    LET highest == max_score(scores, 1, Len(scores))
        at == {k \in 1..Len(scores) : scores[k] = highest}
    IN  CHOOSE k \in at : \A j \in at : k <= j

\* Steps 2-5 for one species: the search over the grid, then the fit at
\* the selected ratio.
same_weight_fit(table, spec_name, descriptors, r) ==
    [ratios |-> <<[name |-> descriptors[1], ratio |-> r],
                  [name |-> descriptors[2], ratio |-> r]>>,
     fit |-> _builder(table, spec_name, adaptive_ratios(descriptors, r))]

adaptive_fit_same_weight(table, spec_name, descriptors, step_length) ==
    same_weight_fit(table, spec_name, descriptors,
        grid_ratio(step_length,
            best_ratio(grid_scores(table, spec_name, descriptors, step_length,
                                   0, grid_last(step_length))) - 1))

\* Steps 4 and 5: the ratios selected for a species and its fit at them.
selected_fit(table, spec_name, chosen) ==
    [ratios |-> chosen, fit |-> _builder(table, spec_name, chosen)]

adaptive_fit(table, spec_name, descriptors, step_length) ==
    selected_fit(table, spec_name,
        adaptive_ratios(descriptors,
            grid_ratio(step_length,
                best_ratio(grid_scores(table, spec_name, descriptors, step_length,
                                       0, grid_last(step_length))) - 1)))

\* The loop over the species still to fit: species name -> its ratios and
\* its fit.
RECURSIVE fit_all(_, _, _, _)
fit_all(table, names, descriptors, step_length) ==
    IF names = {}
    THEN <<>>
    ELSE LET name == CHOOSE n \in names : TRUE
         IN  (name :> adaptive_fit(table, name, descriptors, step_length))
             @@ fit_all(table, names \ {name}, descriptors, step_length)

\* The outcome of a build: the Relation constructed (or the error raised
\* constructing it), the warnings issued and the number of regressions run.
build_outcome(rel, warnings, count) ==
    [result |-> rel.result, warned |-> warnings \cup rel.warned, fits |-> count]

\* The Relation over the fits found for the species.
adaptive_relation(found, warnings, count) ==
    build_outcome(EadsRelation_init(
                      [name \in DOMAIN found |-> found[name].fit.value.coefs],
                      [name \in DOMAIN found |-> found[name].fit.value.intercept],
                      [name \in DOMAIN found |-> found[name].fit.value.metrics],
                      [name \in DOMAIN found |-> found[name].ratios]),
                  warnings, count)

\* Steps 1-5 for every species of the table, then the Relation.
build_adaptive(table, descriptors, step_length) ==
    LET check == check_adaptive(descriptors, step_length)
    IN  IF check.kind = "raise"
        THEN [result |-> check, warned |-> {}, fits |-> 0]
        ELSE IF \E i \in 1..2 : descriptors[i] \notin DOMAIN table
        THEN [result |-> Raise("KeyError"), warned |-> check.value, fits |-> 0]
        ELSE adaptive_relation(
                 fit_all(table, DOMAIN table, descriptors, step_length.value),
                 check.value,
                 Cardinality(DOMAIN table) * (grid_last(step_length.value) + 2))

(***************************************************************************)
(* The Builder's inputs.                                                   *)
(***************************************************************************)
\* Tables of three adsorbates over three samples.  Every adsorbate is 0 on
\* the first sample (adding a constant to a column moves intercepts only);
\* on the others "*A" holds 0 or 1, "*D" 0 or -1 and "*B" 0 or 10, so that
\* tables of the tests' shape (B = 10 * A, D = -A) are among them.
Samples == <<"Cu", "Ni", "Pt">>

Columns(S) == {<<Zero>> \o c : c \in [1..(Len(Samples) - 1) -> {Num(v) : v \in S}]}

Tables ==
    {[name \in {"*A", "*B", "*D"} |->
         IF name = "*A" THEN a ELSE IF name = "*B" THEN b ELSE d] :
        a \in Columns({0, 1}), b \in Columns({0, 10}), d \in Columns({0, -1})}

NoRelation == EadsRelation(<<>>, <<>>, <<>>, <<>>)

TargetNames == {"*A", "*B", "*Z"}

RatioValues == {Zero, Rat(1, 4), Rat(1, 2), Rat(3, 4), One}

RatioNames == {<<"*A">>, <<"*A", "*D">>, <<"*D", "*A">>, <<"*A", "*Z">>}

RatioDicts ==
    {<<>>}
    \cup {<<[name |-> n[1], ratio |-> r]>> : n \in {m \in RatioNames : Len(m) = 1}, r \in RatioValues}
    \cup {<<[name |-> n[1], ratio |-> r[1]], [name |-> n[2], ratio |-> r[2]]>> :
             n \in {m \in RatioNames : Len(m) = 2}, r \in RatioValues \X RatioValues}

DescriptorSpecs ==
    {<<"*A">>, <<"*A", "*D">>, <<"*D", "*A">>, <<"*A", "*A">>,
     <<"*A", "*Z">>, <<"*A", "*B", "*D">>}

\* The step lengths of the tests ("10", 200, 20, 0.09), the ends of the
\* ranges, and one (30) that does not divide the interval from 0 to 1.
FineStep == Float(Rat(9, 100))

StepLengths ==
    {Str("10"), Float(Num(-1)), Float(Zero), FineStep, Float(Num(5)),
     Float(Num(20)), Float(Num(30)), Float(Num(50)), Float(Num(100)),
     Float(Num(200))}

\* The calls of build_adaptive made on a table.  The grid of FineStep has
\* 1113 ratios with denominators of 10^4: it is searched in the setting of
\* the tests (B = 10 * A, D = -A on the samples <<0, 1, 1>> of A, and the
\* descriptors "*A", "*D"), where every fit stays within TLC's integers.
FixtureTable(table) ==
    /\ table["*A"] = <<Zero, One, One>>
    /\ table["*B"] = VScale(Num(10), table["*A"])
    /\ table["*D"] = VScale(Num(-1), table["*A"])

AdaptiveCalls(table) ==
    (DescriptorSpecs \X (StepLengths \ {FineStep}))
    \cup (IF FixtureTable(table)
          THEN (DescriptorSpecs \ {<<"*D", "*A">>}) \X {FineStep}
          ELSE {})

\* Builder(data).  The methods of a Builder read self.data and write nothing,
\* so a call leaves the Builder as it was constructed: a behaviour is one
\* call on a Builder over one of the tables.
InitBuilder ==
    /\ relation = NoRelation
    /\ reaction = <<>>
    /\ data \in Tables
    /\ op = "init"
    /\ args = <<>>
    /\ result = NoResult
    /\ warned = {}
    /\ fits = 0
    /\ des = NoDescriptors
    /\ _groups = None

\* builder._builder(spec_name, ratios)
Builder_builder(spec_name, ratios) ==
    /\ data # NoData
    /\ op = "init"
    /\ op' = "_builder"
    /\ args' = <<spec_name, ratios>>
    /\ result' = _builder(data, spec_name, ratios)
    /\ warned' = {}
    /\ fits' = IF result'.kind = "return" THEN 1 ELSE 0
    /\ UNCHANGED <<relation, reaction, data, des, _groups>>

\* builder.build_adaptive(descriptors, step_length)
BuildAdaptive(descriptors, step_length) ==
    /\ data # NoData
    /\ op = "init"
    /\ op' = "build_adaptive"
    /\ args' = <<descriptors, step_length>>
    /\ \E built \in {build_adaptive(data, descriptors, step_length)} :
           /\ result' = built.result
           /\ warned' = built.warned
           /\ fits' = built.fits
    /\ UNCHANGED <<relation, reaction, data, des, _groups>>

NextBuilder == \E spec_name \in TargetNames, ratios \in RatioDicts : Builder_builder(spec_name, ratios)

SpecBuilder == InitBuilder /\ [][NextBuilder]_vars

NextAdaptive == \E call \in AdaptiveCalls(data) : BuildAdaptive(call[1], call[2])

SpecAdaptive == InitBuilder /\ [][NextAdaptive]_vars

(***************************************************************************)
(* Properties of the Builder.                                              *)
(***************************************************************************)
AdaptiveCall == op = "build_adaptive"
LastDescriptors == args[1]
LastStepLength == args[2]
Built == AdaptiveCall /\ result.kind = "return"

\* step_length is a number strictly between 0 and 100.
NumericInRange(step_length) ==
    /\ step_length.type = "float"
    /\ step_length.value[1] > 0
    /\ step_length.value[1] < 100 * step_length.value[2]

\* The descriptors name exactly two distinct species.
TwoDistinct(descriptors) ==
    /\ Len(descriptors) = 2
    /\ Cardinality({descriptors[i] : i \in 1..Len(descriptors)}) = 2

ValidRequest == NumericInRange(LastStepLength) /\ TwoDistinct(LastDescriptors)

DescriptorsInTable ==
    \A i \in 1..Len(LastDescriptors) : LastDescriptors[i] \in DOMAIN data

\* C6: every Relation build_adaptive produces holds, for every species of
\* the table, the ratios of descriptor_0 and descriptor_1, and the two sum
\* to 1.0 within 0.01; a valid request on descriptors of the table
\* produces such a Relation.
C6_RatiosSumToOne ==
    AdaptiveCall =>
        /\ (ValidRequest /\ DescriptorsInTable) =>
               (Built /\ DOMAIN result.value.ratios = DOMAIN data)
        /\ Built =>
               \A name \in DOMAIN result.value.ratios :
                   LET ratios == result.value.ratios[name]
                       sum == RAdd(ratios[1].ratio, ratios[2].ratio)
                   IN  /\ Len(ratios) = 2
                       /\ ratios[1].name = LastDescriptors[1]
                       /\ ratios[2].name = LastDescriptors[2]
                       /\ RLeq(RAbs(RSub(sum, One)), Rat(1, 100))

C6_Witness ==
    /\ Built
    /\ \E name \in DOMAIN result.value.ratios :
           /\ RLt(Zero, result.value.ratios[name][1].ratio)
           /\ RLt(result.value.ratios[name][1].ratio, One)

\* The grid of ratios of a step length: the multiples of step_length / 100
\* below 1, and 1.
GridOf(step_length) ==
    {RMul(Num(k), Rat(step_length[1], 100 * step_length[2])) :
         k \in {j \in 0..((100 * step_length[2]) \div step_length[1]) :
                    j * step_length[1] < 100 * step_length[2]}}
    \cup {One}

\* The fit of a species against r * descriptor_0 + (1 - r) * descriptor_1.
FitAt(table, name, descriptors, r) ==
    LET x == VAdd(VScale(r, table[descriptors[1]]),
                  VScale(RSub(One, r), table[descriptors[2]]))
        reg == LinearRegression_fit(x, table[name])
    IN  [coef_ |-> reg.coef_, intercept_ |-> reg.intercept_,
         score |-> LinearRegression_score(reg, x, table[name])]

NotConstant(v) == \E i \in 1..Len(v), j \in 1..Len(v) : v[i] # v[j]

\* d = a * v + b on every sample, for some a and b (v not constant): the
\* differences of d are proportional to those of v.
Affine(d, v) ==
    \A i \in 1..Len(v), j \in 1..Len(v), k \in 1..Len(v), l \in 1..Len(v) :
        RMul(RSub(d[i], d[j]), RSub(v[k], v[l]))
            = RMul(RSub(d[k], d[l]), RSub(v[i], v[j]))

\* build_adaptive with the descriptors [A, D] on a table with Y = 10 * A,
\* A not constant ("*B" is Y).
C8_Premise ==
    /\ AdaptiveCall
    /\ ValidRequest
    /\ LastDescriptors = <<"*A", "*D">>
    /\ data["*B"] = VScale(Num(10), data["*A"])
    /\ NotConstant(data["*A"])

C8_Conclusion ==
    /\ Built
    /\ result.value.ratios["*B"] =
           <<[name |-> "*A", ratio |-> One], [name |-> "*D", ratio |-> Zero]>>
    /\ result.value.metrics["*B"] = One
    /\ result.value.coefficients["*B"] = <<Num(10), Zero>>

C9_AdaptiveValidation ==
    AdaptiveCall =>
        /\ (result = Raise("ValueError")) <=> ~ValidRequest
        /\ ~ValidRequest => (fits = 0 /\ warned = {})
        /\ (ValidRequest /\ DescriptorsInTable) =>
               /\ Built
               /\ DOMAIN result.value.coefficients = DOMAIN data
               /\ fits > 0
               /\ ("Large step length may harm accuracy" \in warned)
                      <=> (LastStepLength.value[1] > 5 * LastStepLength.value[2])
               /\ ("Small step length may slow down searching" \in warned)
                      <=> (10 * LastStepLength.value[1] < LastStepLength.value[2])

C9_Witness ==
    /\ Built
    /\ LastStepLength = FineStep
    /\ "Small step length may slow down searching" \in warned
    /\ DOMAIN result.value.coefficients = DOMAIN data

\* The composite descriptor of a ratios dict: the sum over its items of
\* ratio * column.
RECURSIVE CompositeOf(_, _, _)
CompositeOf(table, ratios, i) ==
    IF i > Len(ratios)
    THEN Zeros(Len(Samples))
    ELSE VAdd(VScale(ratios[i].ratio, table[ratios[i].name]),
              CompositeOf(table, ratios, i + 1))

\* (slope, intercept) is a least-squares line of y against x: the residuals
\* sum to zero and are orthogonal to x.
LeastSquares(slope, intercept, x, y) ==
    LET res == VSub(y, VAdd(VScale(slope, x), VScale(intercept, Ones(Len(x)))))
    IN  /\ VSum(res, 1) = Zero
        /\ VSum(VMul(res, x), 1) = Zero

BuilderCall == op = "_builder"

KnownNames ==
    /\ args[1] \in DOMAIN data
    /\ \A i \in 1..Len(args[2]) : args[2][i].name \in DOMAIN data

\* C10: _builder returns one coefficient per item of ratios, in the order of
\* the items, each the slope of the least-squares fit of the target against
\* the composite descriptor times the item's ratio, and the intercept of
\* that fit; the coefficients sum to the slope when the ratios sum to 1.  It
\* returns whenever the ratios sum to 1 and the names are columns.
C10_BuilderMapsSlope ==
    BuilderCall =>
        /\ (KnownNames /\ RatioSum(args[2], 1) = One) => result.kind = "return"
        /\ result.kind = "return" =>
               LET ratios == args[2]
                   coefs == result.value.coefs
                   x == CompositeOf(data, ratios, 1)
                   slope == LinearRegression_fit(x, data[args[1]]).coef_
               IN  /\ LeastSquares(slope, result.value.intercept, x, data[args[1]])
                   /\ Len(coefs) = Len(ratios)
                   /\ \A i \in 1..Len(ratios) : coefs[i] = RMul(slope, ratios[i].ratio)
                   /\ RatioSum(ratios, 1) = One => VSum(coefs, 1) = slope

C10_Witness ==
    /\ BuilderCall
    /\ result.kind = "return"
    /\ Len(args[2]) = 2
    /\ args[2][1].ratio = Rat(1, 4)
    /\ result.value.coefs[1] # Zero
    /\ result.value.coefs[1] # result.value.coefs[2]

(***************************************************************************)
(* Builder._build_composite_descriptor called on its own.                  *)
(***************************************************************************)
\* Ratios at, just inside and just outside the tolerance of 1e-4 around a
\* sum of 1.
CompositeRatioValues ==
    {Zero, Rat(1, 2), Rat(4998, 10000), Rat(4999, 10000), Rat(49995, 100000),
     Rat(5001, 10000), Rat(5002, 10000), One}

CompositeNames == RatioNames \cup {<<"*A", "*B">>}

CompositeDicts ==
    {<<>>}
    \cup {<<[name |-> n[1], ratio |-> r]>> :
             n \in {m \in CompositeNames : Len(m) = 1}, r \in CompositeRatioValues}
    \cup {<<[name |-> n[1], ratio |-> r[1]], [name |-> n[2], ratio |-> r[2]]>> :
             n \in {m \in CompositeNames : Len(m) = 2},
             r \in CompositeRatioValues \X CompositeRatioValues}

\* builder._build_composite_descriptor(spec_ratios)
BuildCompositeDescriptor(spec_ratios) ==
    /\ data # NoData
    /\ op = "init"
    /\ op' = "_build_composite_descriptor"
    /\ args' = <<spec_ratios>>
    /\ result' = _build_composite_descriptor(data, spec_ratios)
    /\ warned' = {}
    /\ fits' = 0
    /\ UNCHANGED <<relation, reaction, data, des, _groups>>

NextComposite == \E spec_ratios \in CompositeDicts : BuildCompositeDescriptor(spec_ratios)

SpecComposite == InitBuilder /\ [][NextComposite]_vars

CompositeCall == op = "_build_composite_descriptor"

\* The sum of the ratios given lies in [1 - 1e-4, 1 + 1e-4].
SumsToOne ==
    /\ RLeq(Rat(9999, 10000), RatioSum(args[1], 1))
    /\ RLeq(RatioSum(args[1], 1), Rat(10001, 10000))

AllColumns == \A i \in 1..Len(args[1]) : args[1][i].name \in DOMAIN data

\* C11 as stated: _build_composite_descriptor raises ValueError whenever the
\* ratios do not sum to 1.0 within 1e-4, and returns a vector whenever they do.
C11_SumDecidesOutcome ==
    CompositeCall =>
        /\ ~SumsToOne => result = Raise("ValueError")
        /\ SumsToOne => result.kind = "return" /\ Len(result.value) = Len(Samples)

\* C11: _build_composite_descriptor raises ValueError whenever the ratios do
\* not sum to 1.0 within 1e-4, whether or not the names are columns of the
\* table (the sum is checked before any column is fetched); when they do sum
\* to 1.0 within the tolerance it returns a vector with one element per
\* material if every name is a column, and fails with the lookup's error if
\* one is not.
C11_SumCheckedBeforeFetch ==
    CompositeCall =>
        /\ ~SumsToOne => result = Raise("ValueError")
        /\ (SumsToOne /\ AllColumns) =>
               result.kind = "return" /\ Len(result.value) = Len(Samples)
        /\ (SumsToOne /\ ~AllColumns) => result = Raise("KeyError")

C11_Witness ==
    /\ CompositeCall
    /\ Len(args[1]) = 2
    /\ args[1][2].name = "*Z"
    /\ RatioSum(args[1], 1) = Rat(10002, 10000)
    /\ result = Raise("ValueError")

\* Sum over the items of ratios, from item i on, of ratio times the value
\* of the item's column at material m.
RECURSIVE ElementSum(_, _, _, _)
ElementSum(table, ratios, m, i) ==
    IF i > Len(ratios)
    THEN Zero
    ELSE RAdd(RMul(ratios[i].ratio, table[ratios[i].name][m]),
              ElementSum(table, ratios, m, i + 1))

\* C12: the vector returned by _build_composite_descriptor has one element
\* per material, the sum over the named descriptors of ratio times the
\* descriptor's value there: column A for {A: 1.0} and for {A: 1, D: 0}, the
\* element-wise average of columns A and B for {A: 0.5, B: 0.5}.
C12_CompositeIsWeightedSum ==
    (CompositeCall /\ result.kind = "return") =>
        /\ Len(result.value) = Len(Samples)
        /\ \A m \in 1..Len(Samples) :
               result.value[m] = ElementSum(data, args[1], m, 1)
        /\ args[1] = <<[name |-> "*A", ratio |-> One]>> => result.value = data["*A"]
        /\ args[1] = <<[name |-> "*A", ratio |-> One], [name |-> "*D", ratio |-> Zero]>>
               => result.value = data["*A"]
        /\ args[1] = <<[name |-> "*A", ratio |-> Rat(1, 2)], [name |-> "*B", ratio |-> Rat(1, 2)]>>
               => \A m \in 1..Len(Samples) :
                      RMul(Num(2), result.value[m]) = RAdd(data["*A"][m], data["*B"][m])

C12_Witness ==
    /\ CompositeCall
    /\ result.kind = "return"
    /\ args[1] = <<[name |-> "*A", ratio |-> Rat(1, 2)], [name |-> "*B", ratio |-> Rat(1, 2)]>>
    /\ data["*A"] = <<Zero, One, Zero>>
    /\ data["*B"] = <<Zero, Zero, Num(10)>>
    /\ result.value = <<Zero, Rat(1, 2), Num(5)>>

(***************************************************************************)
(* Builder.build_traditional(groups): builder.py lines 288-324.            *)
(***************************************************************************)
\* An item of groups: the descriptor and its value, a list of species
\* (members) or None.
Group(descriptor, members) == [descriptor |-> descriptor, none |-> FALSE, members |-> members]
GroupNone(descriptor) == [descriptor |-> descriptor, none |-> TRUE, members |-> <<>>]

\* Relation(coefficients_dict, metrics_dict) of line 324: the two dicts the
\* method hands over.
Relation(coefficients_dict, metrics_dict) ==
    [coefficients |-> coefficients_dict, metrics |-> metrics_dict]

\* Lines 318-322: coefs.append(intercept), then the two dict assignments.
collect_fit(acc, spec_name, fit) ==
    IF fit.kind = "raise"
    THEN fit
    ELSE Return(Relation(
             (spec_name :> Append(fit.value.coefs, fit.value.intercept))
                 @@ acc.value.coefficients,
             (spec_name :> fit.value.metrics) @@ acc.value.metrics))

\* The inner loop (lines 310-322) from member j on.
RECURSIVE build_group(_, _, _, _, _)
build_group(table, descriptor, members, j, acc) ==
    IF acc.kind = "raise" \/ j > Len(members)
    THEN acc
    ELSE build_group(table, descriptor, members, j + 1,
             collect_fit(acc, members[j],
                 _builder(table, members[j], <<[name |-> descriptor, ratio |-> One]>>)))

\* The outer loop (line 309) from item i on.  Iterating over a value of None
\* (line 310) raises TypeError.
RECURSIVE build_groups(_, _, _, _)
build_groups(table, groups, i, acc) ==
    IF acc.kind = "raise" \/ i > Len(groups)
    THEN acc
    ELSE IF groups[i].none
    THEN Raise("TypeError")
    ELSE build_groups(table, groups, i + 1,
             build_group(table, groups[i].descriptor, groups[i].members, 1, acc))

build_traditional(table, groups) ==
    build_groups(table, groups, 1, Return(Relation(<<>>, <<>>)))

\* The groups given: the group of the tests ({"*A": ["*B"]}), groups of two
\* members, two groups, a species fitted twice, None in place of the
\* members, names that are not columns, no members and no groups.
GroupDicts ==
    {<<Group("*A", <<"*B">>)>>,
     <<Group("*A", <<"*B", "*D">>)>>,
     <<Group("*A", <<"*A">>)>>,
     <<Group("*A", <<"*B">>), Group("*D", <<"*A">>)>>,
     <<Group("*A", <<"*B">>), Group("*D", <<"*B">>)>>,
     <<GroupNone("*A")>>,
     <<Group("*A", <<"*B">>), GroupNone("*D")>>,
     <<GroupNone("*A"), Group("*Z", <<"*B">>)>>,
     <<Group("*A", <<"*Z">>)>>,
     <<Group("*Z", <<"*B">>)>>,
     <<Group("*A", <<>>)>>,
     <<>>}

\* builder.build_traditional(groups)
BuildTraditional(groups) ==
    /\ data # NoData
    /\ op = "init"
    /\ op' = "build_traditional"
    /\ args' = <<groups>>
    /\ result' = build_traditional(data, groups)
    /\ warned' = {}
    /\ fits' = 0
    /\ UNCHANGED <<relation, reaction, data, des, _groups>>

NextTraditional == \E groups \in GroupDicts : BuildTraditional(groups)

SpecTraditional == InitBuilder /\ [][NextTraditional]_vars

TraditionalCall == op = "build_traditional"

\* C13: the Relation build_traditional returns for a single descriptor group
\* {D: members} has dim 1: every member's coefficient list has exactly one
\* element, the intercept is stored in intercepts[S] and ratios[S] is {D: 1.0}.
C13_TraditionalDimOne ==
    (TraditionalCall /\ Len(args[1]) = 1 /\ result.kind = "return") =>
        /\ "intercepts" \in DOMAIN result.value
        /\ "ratios" \in DOMAIN result.value
        /\ \A j \in 1..Len(args[1][1].members) :
               LET S == args[1][1].members[j]
               IN  /\ dim(result.value) = Return(1)
                   /\ Len(result.value.coefficients[S]) = 1
                   /\ S \in DOMAIN result.value.intercepts
                   /\ result.value.ratios[S] =
                          <<[name |-> args[1][1].descriptor, ratio |-> One]>>

\* C14: build_traditional raises ValueError whenever a descriptor group has
\* None instead of a member list, and returns no Relation.
C14_NoneMembersRejected ==
    (TraditionalCall /\ \E i \in 1..Len(args[1]) : args[1][i].none) =>
        result = Raise("ValueError")

\* C26: build_traditional never fits a descriptor species against a
\* descriptor: for every groups mapping, also one where a descriptor name is
\* in its own or in another descriptor's member list, the Relation returned
\* has no fitted entry for a descriptor.
C26_DescriptorsNeverFitted ==
    (TraditionalCall /\ result.kind = "return") =>
        \A i \in 1..Len(args[1]) :
            args[1][i].descriptor \notin DOMAIN result.value.coefficients

(***************************************************************************)
(* An EadsRelation object: construction and assignment of coefficients.    *)
(***************************************************************************)
\* The dicts given: coefficient lists of 0 to 3 floats for the species "a"
\* and "b" (those of test_relation.py among them), metrics above and below
\* the warning threshold, ratios that do and do not sum to one.
CoefficientLists ==
    {<<>>, <<Rat(1, 10)>>, <<Rat(1, 10), Rat(1, 5)>>,
     <<Rat(1, 10), Rat(1, 5), Rat(3, 10)>>}

CoefficientDicts ==
    {<<>>}
    \cup {("a" :> x) : x \in CoefficientLists}
    \cup {("b" :> y) : y \in CoefficientLists}
    \cup {("a" :> x) @@ ("b" :> y) : x \in CoefficientLists, y \in CoefficientLists}

InterceptDicts == {("a" :> Zero) @@ ("b" :> One)}

MetricDicts ==
    {("a" :> Rat(4, 5)) @@ ("b" :> Rat(9, 10)),
     ("a" :> Rat(2, 5)) @@ ("b" :> Rat(9, 10))}

RelationRatioDicts ==
    {("b" :> <<[name |-> "a", ratio |-> One]>>),
     ("b" :> <<[name |-> "a", ratio |-> Rat(1, 2)]>>),
     ("a" :> <<[name |-> "a", ratio |-> One]>>)
         @@ ("b" :> <<[name |-> "a", ratio |-> Rat(1, 2)], [name |-> "b", ratio |-> Rat(1, 2)]>>)}

\* EadsRelation({}, {}, {}, {})
InitRelation ==
    /\ relation = EadsRelation(<<>>, <<>>, <<>>, <<>>)
    /\ reaction = <<>>
    /\ data = NoData
    /\ op = "init"
    /\ args = <<>>
    /\ result = NoResult
    /\ warned = {}
    /\ fits = 0
    /\ des = NoDescriptors
    /\ _groups = None

\* relation = EadsRelation(coefficients, intercepts, metrics, ratios): the
\* name is bound to the new object unless the constructor raises.
NewEadsRelation(coefficients, intercepts, metrics, ratios) ==
    /\ op' = "EadsRelation"
    /\ args' = <<coefficients, intercepts, metrics, ratios>>
    /\ \E made \in {EadsRelation_init(coefficients, intercepts, metrics, ratios)} :
           /\ result' = made.result
           /\ warned' = made.warned
           /\ relation' = IF made.result.kind = "return" THEN made.result.value ELSE relation
    /\ UNCHANGED <<reaction, data, fits, des, _groups>>

\* relation.coefficients = coefficients
SetCoefficients(coefficients) ==
    /\ op' = "coefficients"
    /\ args' = <<coefficients>>
    /\ result' = EadsRelation_coefficients(coefficients)
    /\ relation' = IF result'.kind = "return"
                   THEN [relation EXCEPT !.coefficients = result'.value]
                   ELSE relation
    /\ warned' = {}
    /\ UNCHANGED <<reaction, data, fits, des, _groups>>

\* relation.dim
ReadDim ==
    /\ op' = "dim"
    /\ args' = <<>>
    /\ result' = dim(relation)
    /\ warned' = {}
    /\ UNCHANGED <<relation, reaction, data, fits, des, _groups>>

NextRelation ==
    \/ \E c \in CoefficientDicts, i \in InterceptDicts, m \in MetricDicts, r \in RelationRatioDicts :
           NewEadsRelation(c, i, m, r)
    \/ \E c \in CoefficientDicts : SetCoefficients(c)
    \/ ReadDim

SpecRelation == InitRelation /\ [][NextRelation]_vars

\* The coefficients and ratios getters (lines 101-105 and 197-214) return
\* the dict the object holds, not a copy: an item assignment on the dict
\* returned changes the object, and no setter runs.
dict_setitem(d, key, value) == (key :> value) @@ d

\* relation.coefficients[name] = value
SetCoefficientsItem(name, value) ==
    /\ op' = "coefficients.__setitem__"
    /\ args' = <<name, value>>
    /\ result' = Return(None)
    /\ relation' = [relation EXCEPT !.coefficients = dict_setitem(@, name, value)]
    /\ warned' = {}
    /\ UNCHANGED <<reaction, data, fits, des, _groups>>

\* relation.ratios[name] = ratio_dict
SetRatiosItem(name, ratio_dict) ==
    /\ op' = "ratios.__setitem__"
    /\ args' = <<name, ratio_dict>>
    /\ result' = Return(None)
    /\ relation' = [relation EXCEPT !.ratios = dict_setitem(@, name, ratio_dict)]
    /\ warned' = {}
    /\ UNCHANGED <<reaction, data, fits, des, _groups>>

\* The ratio sub-maps written through the getter: those of RelationRatioDicts.
RatioSubMaps == UNION {{r[name] : name \in DOMAIN r} : r \in RelationRatioDicts}

\* One object is followed from its construction on: a second constructor
\* call would only put a new object in its place.
NextRelationEdits ==
    \/ /\ op = "init"
       /\ \E c \in CoefficientDicts, i \in InterceptDicts, m \in MetricDicts, r \in RelationRatioDicts :
              NewEadsRelation(c, i, m, r)
    \/ \E c \in CoefficientDicts : SetCoefficients(c)
    \/ \E name \in {"a", "b"}, value \in CoefficientLists : SetCoefficientsItem(name, value)
    \/ \E name \in {"a", "b"}, ratio_dict \in RatioSubMaps : SetRatiosItem(name, ratio_dict)

SpecRelationEdits == InitRelation /\ [][NextRelationEdits]_vars

\* The lists of a coefficients dict have one common length.
SameLength(coefficients) ==
    \A x, y \in DOMAIN coefficients : Len(coefficients[x]) = Len(coefficients[y])

\* C15: constructing an EadsRelation with, or assigning to its coefficients,
\* lists of different lengths fails with ValueError; the lists of the
\* coefficients an EadsRelation holds all have the same length.
C15_CoefficientLengths ==
    /\ (op \in {"EadsRelation", "coefficients"} /\ ~SameLength(args[1]))
           => result = Raise("ValueError")
    /\ (op \in {"EadsRelation", "coefficients"} /\ result.kind = "return")
           => SameLength(args[1]) /\ relation.coefficients = args[1]
    /\ SameLength(relation.coefficients)

C15_Witness ==
    /\ op = "coefficients"
    /\ args[1] = ("a" :> <<Rat(1, 10), Rat(1, 5)>>)
                  @@ ("b" :> <<Rat(1, 10), Rat(1, 5), Rat(3, 10)>>)
    /\ result = Raise("ValueError")
    /\ relation.coefficients = ("a" :> <<Rat(1, 10)>>)

\* What the ratios setter accepts (lines 216-236): every sub-map sums to
\* 1.0 within 0.01 and all sub-maps have one size.
ValidRatios(ratios) ==
    /\ \A name \in DOMAIN ratios : isclose(RatioSum(ratios[name], 1), One, AbsTolRatios)
    /\ \A a, b \in DOMAIN ratios : Len(ratios[a]) = Len(ratios[b])

\* C24: no invalid EadsRelation can exist: after any sequence of constructor
\* calls, property assignments and edits made through the dicts the
\* coefficients and ratios getters return, the coefficient lists have one
\* common length, every ratio sub-map sums to 1.0 within 0.01 and the ratio
\* sub-maps have one common size.
C24_RelationAlwaysValid ==
    /\ SameLength(relation.coefficients)
    /\ ValidRatios(relation.ratios)

\* C25: in every successfully constructed EadsRelation the number of
\* descriptors in each species' ratio sub-map equals dim, the length of the
\* coefficient lists.
C25_RatiosSizedAsDim ==
    (op = "EadsRelation" /\ result.kind = "return") =>
        \A s \in DOMAIN relation.ratios, c \in DOMAIN relation.coefficients :
            Len(relation.ratios[s]) = Len(relation.coefficients[c])

\* C30: reading dim of an EadsRelation that construction accepted never
\* fails and returns the common length of the coefficient lists, also for
\* a relation constructed with an empty coefficients mapping.
C30_DimDefined ==
    op = "dim" =>
        /\ result.kind = "return"
        /\ \A c \in DOMAIN relation.coefficients :
               result.value = Len(relation.coefficients[c])

(***************************************************************************)
(* Comparisons of Species and of ReactionSteps (scaling/data/species.py,   *)
(* scaling/data/reaction.py).                                              *)
(***************************************************************************)
\* A value handed to __eq__ as other: an object of the class compared with,
\* or an object of another class (a str), whose obj is not looked at.
PyObject(class, obj) == [class |-> class, obj |-> obj]

AbsTolSpecies == Rat(1, 10000)

\* Species.__eq__(self, other): species.py lines 51-62.
Species___eq__(self, other) ==
    IF other.class # "Species"
    THEN FALSE
    ELSE /\ self.name = other.obj.name
         /\ self.adsorbed = other.obj.adsorbed
         /\ isclose(self.energy, other.obj.energy, AbsTolSpecies)
         /\ isclose(self.correction, other.obj.correction, AbsTolSpecies)
         /\ self.state = other.obj.state

\* Species.__hash__(self): species.py lines 64-65.  The hash of a tuple is
\* modelled by the tuple: two hashes are equal when the tuples are.
Species___hash__(self) == <<self.name, self.adsorbed, self.energy, self.state>>

\* The key b of a dict is the one a looks up: the hashes agree and the keys
\* compare equal.
same_key(a, b) ==
    /\ Species___hash__(a) = Species___hash__(b)
    /\ Species___eq__(a, PyObject("Species", b))

\* d1 == d2 for two stoichiometric maps: as many items, and every key of d1
\* is a key of d2 with an equal value.
dict_eq(d1, d2) ==
    /\ Len(d1) = Len(d2)
    /\ \A i \in 1..Len(d1) :
           \E j \in 1..Len(d2) : same_key(d1[i].spec, d2[j].spec) /\ d1[i].num = d2[j].num

\* ReactionStep.__eq__(self, other) with a step written backwards taken for
\* the step itself.
ReactionStep___eq___undirected(self, other) ==
    IF other.class # "ReactionStep"
    THEN [value |-> FALSE, warned |-> {}]
    ELSE [value |-> \/ /\ dict_eq(self.reactants, other.obj.reactants)
                       /\ dict_eq(self.products, other.obj.products)
                    \/ /\ dict_eq(self.reactants, other.obj.products)
                       /\ dict_eq(self.products, other.obj.reactants),
          warned |-> IF /\ dict_eq(self.reactants, other.obj.products)
                        /\ dict_eq(self.products, other.obj.reactants)
                     THEN {"Found a reverse reaction step."}
                     ELSE {}]

\* ReactionStep.__eq__(self, other): reaction.py lines 49-63.  The value
\* returned and the warnings issued.
ReactionStep___eq__(self, other) ==
    IF other.class # "ReactionStep"
    THEN [value |-> FALSE, warned |-> {}]
    ELSE [value |-> /\ dict_eq(self.reactants, other.obj.reactants)
                    /\ dict_eq(self.products, other.obj.products),
          warned |-> IF /\ dict_eq(self.reactants, other.obj.products)
                        /\ dict_eq(self.products, other.obj.reactants)
                     THEN {"Found a reverse reaction step."}
                     ELSE {}]

\* ReactionStep.__hash__(self): reaction.py lines 89-95, the hash of the two
\* frozensets of items, modelled by the sets of the items' hashes.
items_hash(d) == {<<Species___hash__(d[i].spec), d[i].num>> : i \in 1..Len(d)}

ReactionStep___hash__(self) == <<items_hash(self.reactants), items_hash(self.products)>>

\* The Species compared: "CO2" at energy -6 with correction 3, and every
\* combination of another name, an energy 0.00005 or 1 away, the other
\* adsorbed flag, a correction 0.00005 or 0.5 away, and another state.
SpeciesVariants ==
    {Species(n, e, a, c, st) :
        n \in {"CO2", "COOH"},
        e \in {Num(-6), Rat(-119999, 20000), Num(-5)},
        a \in BOOLEAN,
        c \in {Num(3), Rat(60001, 20000), Rat(7, 2)},
        st \in {"NA", "g"}}

species_CO2 == Species("CO2", Num(-6), TRUE, Num(3), "NA")
species_COOH == Species("COOH", Num(-7), TRUE, Rat(7, 2), "NA")

\* The sides of the steps compared: maps of "CO2" and "COOH" (the species
\* of test_reaction.py), with another number, another order of the items,
\* and the variants of "CO2" in energy and in correction.
ComparedSides ==
    {<<>>,
     <<[spec |-> species_CO2, num |-> Num(1)]>>,
     <<[spec |-> species_CO2, num |-> Num(2)]>>,
     <<[spec |-> Species("CO2", Num(-6), TRUE, Rat(60001, 20000), "NA"), num |-> Num(1)]>>,
     <<[spec |-> Species("CO2", Num(-6), TRUE, Rat(7, 2), "NA"), num |-> Num(1)]>>,
     <<[spec |-> Species("CO2", Rat(-119999, 20000), TRUE, Num(3), "NA"), num |-> Num(1)]>>,
     <<[spec |-> species_COOH, num |-> Num(1)]>>,
     <<[spec |-> species_CO2, num |-> Num(1)], [spec |-> species_COOH, num |-> Num(1)]>>,
     <<[spec |-> species_COOH, num |-> Num(1)], [spec |-> species_CO2, num |-> Num(1)]>>}

ComparedSteps == {ReactionStep(r, p) : r \in ComparedSides, p \in ComparedSides}

\* A comparison reads its two operands and writes nothing: a behaviour is
\* one comparison.
InitEquality ==
    /\ relation = NoRelation
    /\ reaction = <<>>
    /\ data = NoData
    /\ op = "init"
    /\ args = <<>>
    /\ result = NoResult
    /\ warned = {}
    /\ fits = 0
    /\ des = NoDescriptors
    /\ _groups = None

\* self == other for a Species self
SpeciesEq(self, other) ==
    /\ op = "init"
    /\ op' = "Species.__eq__"
    /\ args' = <<self, other>>
    /\ result' = Return(Species___eq__(self, other))
    /\ warned' = {}
    /\ UNCHANGED <<relation, reaction, data, fits, des, _groups>>

\* self == other for a ReactionStep self
ReactionStepEq(self, other) ==
    /\ op = "init"
    /\ op' = "ReactionStep.__eq__"
    /\ args' = <<self, other>>
    /\ \E eq \in {ReactionStep___eq__(self, other)} :
           /\ result' = Return(eq.value)
           /\ warned' = eq.warned
    /\ UNCHANGED <<relation, reaction, data, fits, des, _groups>>

NextEquality ==
    \/ \E self \in SpeciesVariants, other \in SpeciesVariants :
           SpeciesEq(self, PyObject("Species", other))
    \/ \E self \in SpeciesVariants : SpeciesEq(self, PyObject("str", self))
    \/ \E self \in ComparedSteps, other \in ComparedSteps :
           ReactionStepEq(self, PyObject("ReactionStep", other))
    \/ \E self \in ComparedSteps : ReactionStepEq(self, PyObject("str", self))

SpecEquality == InitEquality /\ [][NextEquality]_vars

\* Two stoichiometric maps hold the same items: every item of either has an
\* item of the other with the same key and the same number.
SameMaps(d1, d2) ==
    /\ \A i \in 1..Len(d1) :
           \E j \in 1..Len(d2) : same_key(d1[i].spec, d2[j].spec) /\ d1[i].num = d2[j].num
    /\ \A j \in 1..Len(d2) :
           \E i \in 1..Len(d1) : same_key(d2[j].spec, d1[i].spec) /\ d2[j].num = d1[i].num

ReverseStepWarning == "Found a reverse reaction step."

\* C17: a ReactionStep equals another exactly when the reactant maps are
\* equal and the product maps are equal, in the same direction; a
\* comparison with the step written backwards warns of a reverse step and
\* is not-equal unless the two are also the same in direction; a comparison
\* with an object that is not a ReactionStep is not-equal.
C17_StepEquality ==
    op = "ReactionStep.__eq__" =>
        /\ args[2].class # "ReactionStep" => result = Return(FALSE) /\ warned = {}
        /\ args[2].class = "ReactionStep" =>
               LET same == /\ SameMaps(args[1].reactants, args[2].obj.reactants)
                           /\ SameMaps(args[1].products, args[2].obj.products)
                   mirror == /\ SameMaps(args[1].reactants, args[2].obj.products)
                             /\ SameMaps(args[1].products, args[2].obj.reactants)
               IN  /\ result = Return(same)
                   /\ mirror <=> ReverseStepWarning \in warned
                   /\ (mirror /\ ~same) => result = Return(FALSE)

C17_Witness ==
    /\ op = "ReactionStep.__eq__"
    /\ args[2].class = "ReactionStep"
    /\ args[1].reactants = <<[spec |-> species_CO2, num |-> Num(1)]>>
    /\ args[1].products = <<[spec |-> species_COOH, num |-> Num(1)]>>
    /\ args[2].obj.reactants = args[1].products
    /\ args[2].obj.products = args[1].reactants
    /\ result = Return(FALSE)
    /\ warned = {ReverseStepWarning}

\* C18: two Species compare equal exactly when their name, adsorbed flag,
\* energy and state all match; the correction takes no part in equality or
\* in hashing.
C18_SpeciesEqualByFourFields ==
    (op = "Species.__eq__" /\ args[2].class = "Species") =>
        /\ result.value <=>
               /\ args[1].name = args[2].obj.name
               /\ args[1].adsorbed = args[2].obj.adsorbed
               /\ args[1].energy = args[2].obj.energy
               /\ args[1].state = args[2].obj.state
        /\ (args[1].name = args[2].obj.name
             /\ args[1].adsorbed = args[2].obj.adsorbed
             /\ args[1].energy = args[2].obj.energy
             /\ args[1].state = args[2].obj.state)
               => Species___hash__(args[1]) = Species___hash__(args[2].obj)

\* C28: Species hashing is consistent with Species equality: whenever two
\* Species compare equal their hashes are equal, so that two equal Species
\* address the same entry of a stoichiometric map.
C28_EqualSpeciesHashEqual ==
    (op = "Species.__eq__" /\ args[2].class = "Species" /\ result = Return(TRUE)) =>
        /\ Species___hash__(args[1]) = Species___hash__(args[2].obj)
        /\ same_key(args[1], args[2].obj)

(***************************************************************************)
(* Reaction (scaling/data/reaction.py lines 204-234).                      *)
(***************************************************************************)
\* list(set(reaction_steps)), from item i on: an item joins the items kept
\* unless one of them has its hash and compares equal to it.
RECURSIVE set_of_steps(_, _, _)
set_of_steps(steps, i, kept) ==
    IF i > Len(steps)
    THEN kept
    ELSE IF \E k \in 1..Len(kept) :
                /\ ReactionStep___hash__(kept[k]) = ReactionStep___hash__(steps[i])
                /\ ReactionStep___eq__(kept[k], PyObject("ReactionStep", steps[i])).value
    THEN set_of_steps(steps, i + 1, kept)
    ELSE set_of_steps(steps, i + 1, Append(kept, steps[i]))

\* The reaction_steps setter (lines 226-234): the list stored, or the error.
\* The lists given hold ReactionSteps, so the type check of line 228 passes.
Reaction_reaction_steps(reaction_steps) ==
    IF Len(reaction_steps) # Len(set_of_steps(reaction_steps, 1, <<>>))
    THEN Raise("ValueError")
    ELSE Return(reaction_steps)

\* The steps of test_reaction.py (CO2 -> COOH and the same step written
\* backwards), the first with another stoichiometric number, and the first
\* with a correction 0.00005 away, which compares equal to it.
step_0 ==
    ReactionStep(<<[spec |-> species_CO2, num |-> Num(1)]>>,
                 <<[spec |-> species_COOH, num |-> Num(1)]>>)
step_1 ==
    ReactionStep(<<[spec |-> species_COOH, num |-> Num(1)]>>,
                 <<[spec |-> species_CO2, num |-> Num(1)]>>)
step_2 ==
    ReactionStep(<<[spec |-> species_CO2, num |-> Num(2)]>>,
                 <<[spec |-> species_COOH, num |-> Num(1)]>>)
step_3 ==
    ReactionStep(<<[spec |-> Species("CO2", Num(-6), TRUE, Rat(60001, 20000), "NA"),
                    num |-> Num(1)]>>,
                 <<[spec |-> species_COOH, num |-> Num(1)]>>)

ReactionSteps == {step_0, step_1, step_2, step_3}

StepLists == SeqsUpTo(ReactionSteps, MaxSteps)

\* Reaction([])
InitReaction ==
    /\ relation = NoRelation
    /\ reaction = <<>>
    /\ data = NoData
    /\ op = "init"
    /\ args = <<>>
    /\ result = NoResult
    /\ warned = {}
    /\ fits = 0
    /\ des = NoDescriptors
    /\ _groups = None

\* reaction = Reaction(reaction_steps): the name is bound to the new object
\* unless the constructor raises.
NewReaction(reaction_steps) ==
    /\ op' = "Reaction"
    /\ args' = <<reaction_steps>>
    /\ result' = Reaction_reaction_steps(reaction_steps)
    /\ reaction' = IF result'.kind = "return" THEN result'.value ELSE reaction
    /\ warned' = {}
    /\ UNCHANGED <<relation, data, fits, des, _groups>>

\* reaction.reaction_steps = reaction_steps
SetReactionSteps(reaction_steps) ==
    /\ op' = "reaction_steps"
    /\ args' = <<reaction_steps>>
    /\ result' = Reaction_reaction_steps(reaction_steps)
    /\ reaction' = IF result'.kind = "return" THEN result'.value ELSE reaction
    /\ warned' = {}
    /\ UNCHANGED <<relation, data, fits, des, _groups>>

\* reaction[index] = value (lines 217-218): the item of the list is
\* replaced; an index outside -len .. len - 1 raises IndexError.
SetItem(index, value) ==
    /\ op' = "__setitem__"
    /\ args' = <<index, value>>
    /\ \E pos \in {IF index >= 0 THEN index + 1 ELSE Len(reaction) + index + 1} :
           IF pos \in 1..Len(reaction)
           THEN /\ reaction' = [reaction EXCEPT ![pos] = value]
                /\ result' = Return(reaction')
           ELSE /\ reaction' = reaction
                /\ result' = Raise("IndexError")
    /\ warned' = {}
    /\ UNCHANGED <<relation, data, fits, des, _groups>>

NextReaction ==
    \/ \E reaction_steps \in StepLists : NewReaction(reaction_steps)
    \/ \E reaction_steps \in StepLists : SetReactionSteps(reaction_steps)
    \/ \E index \in (-MaxSteps - 1)..MaxSteps, value \in ReactionSteps : SetItem(index, value)

SpecReaction == InitReaction /\ [][NextReaction]_vars

\* C16: after any sequence of operations on a Reaction (construction,
\* assignment of reaction_steps, item assignment) no two positions of its
\* reaction_steps hold steps that compare equal.
C16_StepsPairwiseUnequal ==
    \A i, j \in 1..Len(reaction) :
        i # j => ~ReactionStep___eq__(reaction[i], PyObject("ReactionStep", reaction[j])).value

(***************************************************************************)
(* Descriptors (cat_scaling/relation/descriptors.py).                      *)
(***************************************************************************)
\* str.lower() on the method names given.
lower(text) ==
    IF text = "Traditional" THEN "traditional"
    ELSE IF text = "ADAPTIVE" THEN "adaptive"
    ELSE IF text = "Hybrid" THEN "hybrid"
    ELSE text

\* The method setter with every string accepted.
Descriptors_method_any(method) ==
    IF method.type = "NoneType"
    THEN Return(None)
    ELSE IF method.type # "str"
    THEN Raise("AttributeError")
    ELSE Return(Str(lower(method.text)))

\* The method setter (lines 93-101): the value stored, or the error.  A
\* value that is neither None nor a str has no lower().
Descriptors_method(method) ==
    IF method.type = "NoneType"
    THEN Return(None)
    ELSE IF method.type # "str"
    THEN Raise("AttributeError")
    ELSE IF lower(method.text) \notin {"traditional", "adaptive"}
    THEN Raise("ValueError")
    ELSE Return(Str(lower(method.text)))

\* all_members of the groups setter (lines 58-72), from item i on.
RECURSIVE all_members(_, _)
all_members(groups, i) ==
    IF i > Len(groups)
    THEN <<>>
    ELSE (IF groups[i].none THEN <<>> ELSE groups[i].members) \o all_members(groups, i + 1)

\* The groups setter (lines 50-78): the groups are stored; members that
\* appear twice give a warning.  The groups given are dicts from strings to
\* lists or None, so the type checks pass.
Descriptors_groups(groups) ==
    [result |-> Return(groups),
     warned |-> IF Len(all_members(groups, 1))
                      # Cardinality({all_members(groups, 1)[k] : k \in 1..Len(all_members(groups, 1))})
                THEN {"Descriptor group members overlap."}
                ELSE {}]

\* Descriptors.__init__(groups, method): lines 21-23.
Descriptors_init(groups, method) ==
    IF Descriptors_method(method).kind = "raise"
    THEN [result |-> Descriptors_method(method), warned |-> Descriptors_groups(groups).warned]
    ELSE [result |-> Return([groups |-> groups, method |-> Descriptors_method(method).value]),
          warned |-> Descriptors_groups(groups).warned]

\* The method values given: None, the two methods in lower and in mixed
\* case, "invalid" (test_descriptors.py) and other strings, and a float.
MethodValues ==
    {None, Str("traditional"), Str("adaptive"), Str("Traditional"), Str("ADAPTIVE"),
     Str("invalid"), Str("hybrid"), Str("Hybrid"), Str(""), Float(One)}

\* Descriptors({})
InitDescriptors ==
    /\ relation = NoRelation
    /\ reaction = <<>>
    /\ data = NoData
    /\ op = "init"
    /\ args = <<>>
    /\ result = NoResult
    /\ warned = {}
    /\ fits = 0
    /\ des = NoDescriptors
    /\ _groups = None

\* des = Descriptors(groups, method): the name is bound to the new object
\* unless the constructor raises.  (The method given is args[1] here as in
\* the assignment below.)
NewDescriptors(groups, method) ==
    /\ op' = "Descriptors"
    /\ args' = <<method, groups>>
    /\ \E made \in {Descriptors_init(groups, method)} :
           /\ result' = made.result
           /\ warned' = made.warned
           /\ des' = IF made.result.kind = "return" THEN made.result.value ELSE des
    /\ UNCHANGED <<relation, reaction, data, fits, _groups>>

\* des.method = method
SetMethod(method) ==
    /\ op' = "method"
    /\ args' = <<method>>
    /\ result' = Descriptors_method(method)
    /\ des' = IF result'.kind = "return" THEN [des EXCEPT !.method = result'.value] ELSE des
    /\ warned' = {}
    /\ UNCHANGED <<relation, reaction, data, fits, _groups>>

NextDescriptors ==
    \/ \E groups \in GroupDicts, method \in MethodValues : NewDescriptors(groups, method)
    \/ \E method \in MethodValues : SetMethod(method)

SpecDescriptors == InitDescriptors /\ [][NextDescriptors]_vars

DescriptorsCall == op \in {"Descriptors", "method"}

\* C19 as stated: the method of every Descriptors object is one of
\* "traditional" and "adaptive", and any other method value is rejected.
C19_MethodDeclared ==
    /\ des.method \in {Str("traditional"), Str("adaptive")}
    /\ (DescriptorsCall /\ args[1] \notin {Str("traditional"), Str("adaptive")})
           => result.kind = "raise"

\* C19: the method of every Descriptors object, after construction and
\* after any assignment to method, is None (none declared) or one of
\* "traditional" and "adaptive" in lower case; a value that is not None and
\* is not one of the two names in some case is rejected with an error
\* (ValueError for a string), and a rejected assignment leaves the method
\* as it was.
C19_MethodNoneOrDeclared ==
    /\ des.method \in {None, Str("traditional"), Str("adaptive")}
    /\ DescriptorsCall =>
           /\ (args[1] \in {Str("traditional"), Str("Traditional")})
                  => result.kind = "return" /\ des.method = Str("traditional")
           /\ (args[1] \in {Str("adaptive"), Str("ADAPTIVE")})
                  => result.kind = "return" /\ des.method = Str("adaptive")
           /\ args[1] = None => result.kind = "return" /\ des.method = None
           /\ (args[1] \in {Str("invalid"), Str("hybrid"), Str("Hybrid"), Str("")})
                  => result = Raise("ValueError")
           /\ args[1] = Float(One) => result.kind = "raise"

C19_Witness ==
    /\ op = "method"
    /\ args[1] = Str("invalid")
    /\ result = Raise("ValueError")
    /\ des.method = Str("adaptive")

(***************************************************************************)
(* Eads: the table and its editing methods (scaling/data/eads.py).  Here   *)
(* the DataFrame is kept with its two axes: columns are the adsorbate      *)
(* names in order, index the sample names in order, values the rows.       *)
(***************************************************************************)
DataFrame(columns, index, values) ==
    [columns |-> columns, index |-> index, values |-> values]

\* name in self.data.columns.values / name in self.data.index
InAxis(name, axis) == \E k \in 1..Len(axis) : axis[k] = name

\* self.data[name] = energies for a name already present: the column is
\* overwritten.
add_adsorbate_overwrite(df, name, energies) ==
    IF Len(energies) # Len(df.index)
    THEN [result |-> Raise("ValueError"), data |-> df]
    ELSE IF InAxis(name, df.columns)
    THEN [result |-> Return(None),
          data |-> DataFrame(df.columns, df.index,
                       [r \in 1..Len(df.index) |->
                           [c \in 1..Len(df.columns) |->
                               IF df.columns[c] = name THEN energies[r] ELSE df.values[r][c]]])]
    ELSE [result |-> Return(None),
          data |-> DataFrame(Append(df.columns, name), df.index,
                       [r \in 1..Len(df.index) |-> Append(df.values[r], energies[r])])]

\* Eads.add_adsorbate(name, energies): lines 124-145.  The outcome and the
\* table afterwards.
add_adsorbate(df, name, energies) ==
    IF Len(energies) # Len(df.index)
    THEN [result |-> Raise("ValueError"), data |-> df]
    ELSE IF InAxis(name, df.columns)
    THEN [result |-> Raise("ValueError"), data |-> df]
    ELSE [result |-> Return(None),
          data |-> DataFrame(Append(df.columns, name), df.index,
                       [r \in 1..Len(df.index) |-> Append(df.values[r], energies[r])])]

\* add_sample without the test of line 163: the row is appended whatever
\* its name.
add_sample_unchecked(df, name, energies) ==
    IF Len(energies) # Len(df.columns)
    THEN [result |-> Raise("ValueError"), data |-> df]
    ELSE [result |-> Return(None),
          data |-> DataFrame(df.columns, Append(df.index, name), Append(df.values, energies))]

\* Eads.add_sample(name, energies): lines 147-167.  On a frame left without
\* columns (every adsorbate removed) the write of line 167, a .loc
\* assignment of a new label, raises ValueError ("cannot set a frame with
\* no defined columns").
add_sample(df, name, energies) ==
    IF Len(energies) # Len(df.columns)
    THEN [result |-> Raise("ValueError"), data |-> df]
    ELSE IF InAxis(name, df.index)
    THEN [result |-> Raise("ValueError"), data |-> df]
    ELSE IF Len(df.columns) = 0
    THEN [result |-> Raise("ValueError"), data |-> df]
    ELSE [result |-> Return(None),
          data |-> DataFrame(df.columns, Append(df.index, name), Append(df.values, energies))]

\* The positions of an axis without the positions labelled name, in order.
RECURSIVE kept_positions(_, _, _)
kept_positions(axis, name, k) ==
    IF k > Len(axis)
    THEN <<>>
    ELSE (IF axis[k] = name THEN <<>> ELSE <<k>>) \o kept_positions(axis, name, k + 1)

\* df.reindex along the columns / along the rows: the frame whose k-th
\* column (row) is the column (row) at position perm[k] of df.
take_columns(df, perm) ==
    DataFrame([k \in 1..Len(perm) |-> df.columns[perm[k]]], df.index,
              [r \in 1..Len(df.index) |-> [k \in 1..Len(perm) |-> df.values[r][perm[k]]]])

take_rows(df, perm) ==
    DataFrame(df.columns, [k \in 1..Len(perm) |-> df.index[perm[k]]],
              [k \in 1..Len(perm) |-> df.values[perm[k]]])

\* Eads.remove_adsorbate(name): line 176, DataFrame.drop(columns=name,
\* inplace=True).  drop raises KeyError for a label that is not on the axis.
remove_adsorbate(df, name) ==
    IF ~InAxis(name, df.columns)
    THEN [result |-> Raise("KeyError"), data |-> df]
    ELSE [result |-> Return(None),
          data |-> take_columns(df, kept_positions(df.columns, name, 1))]

\* Eads.remove_sample(name): line 185.
remove_sample(df, name) ==
    IF ~InAxis(name, df.index)
    THEN [result |-> Raise("KeyError"), data |-> df]
    ELSE [result |-> Return(None),
          data |-> take_rows(df, kept_positions(df.index, name, 1))]

\* The order of Python strings on the names used here (code points, left
\* to right): the rank of a name is its position in the sorted list.
NameOrder == <<"*A", "*B", "*C", "Cu", "Ni", "Pt">>

rank(name) == CHOOSE k \in 1..Len(NameOrder) : NameOrder[k] = name

\* Index.is_monotonic_increasing
is_monotonic_increasing(axis) ==
    \A k \in 1..(Len(axis) - 1) : rank(axis[k]) <= rank(axis[k + 1])

\* One insertion of position p into the positions perm already in order of
\* their labels, behind the positions with an equal label.
RECURSIVE insert_position(_, _, _)
insert_position(perm, axis, p) ==
    IF perm = <<>>
    THEN <<p>>
    ELSE IF rank(axis[p]) < rank(axis[Head(perm)])
    THEN <<p>> \o perm
    ELSE <<Head(perm)>> \o insert_position(Tail(perm), axis, p)

\* An argsort that returns the positions of the first n labels from the
\* last to the first, whatever the labels.
RECURSIVE argsort_reversed(_, _)
argsort_reversed(axis, n) ==
    IF n = 0 THEN <<>> ELSE <<n>> \o argsort_reversed(axis, n - 1)

\* The argsort sort_index runs on the first n labels of an axis (numpy
\* sorts the short arrays of a table's axis by insertion).
RECURSIVE argsort(_, _)
argsort(axis, n) ==
    IF n = 0 THEN <<>> ELSE insert_position(argsort(axis, n - 1), axis, n)

\* A sort of the columns that reverses them, in order or not.
sort_index_columns_reversed(df) ==
    take_columns(df, argsort_reversed(df.columns, Len(df.columns)))

\* DataFrame.sort_index(axis=1) and DataFrame.sort_index(): an axis already
\* in increasing order is returned as it is, any other is reordered by the
\* argsort of its labels.  (The data setter's astype(float), lines 69-78,
\* leaves a frame of floats as it is.)
sort_index_columns(df) ==
    IF is_monotonic_increasing(df.columns)
    THEN df
    ELSE take_columns(df, argsort(df.columns, Len(df.columns)))

sort_index_rows(df) ==
    IF is_monotonic_increasing(df.index)
    THEN df
    ELSE take_rows(df, argsort(df.index, Len(df.index)))

\* Eads.sort_data(targets): lines 187-199.  targets is given as a set here
\* (line 190 takes set(targets)).
sort_data(df, targets) ==
    IF ~(targets \subseteq {"column", "row"})
    THEN [result |-> Raise("ValueError"), data |-> df]
    ELSE [result |-> Return(None),
          data |-> IF "row" \in targets
                   THEN sort_index_rows(IF "column" \in targets THEN sort_index_columns(df) ELSE df)
                   ELSE IF "column" \in targets THEN sort_index_columns(df) ELSE df]

\* The tables edited have at most MaxAxis adsorbates and MaxAxis samples.
MaxAxis == 2

AdsorbateNames == {"*A", "*B", "*C"}
SampleNames == {"Cu", "Ni", "Pt"}

\* The vectors given: of every length up to one more than MaxAxis, of ones
\* or of twos.
RECURSIVE Repeat(_, _)
Repeat(v, n) == IF n = 0 THEN <<>> ELSE <<v>> \o Repeat(v, n - 1)

EnergyLists == {Repeat(Num(v), n) : v \in {1, 2}, n \in 0..(MaxAxis + 1)}

\* Eads(data) for a table of one adsorbate on one sample.
InitEads ==
    /\ relation = NoRelation
    /\ reaction = <<>>
    /\ data = DataFrame(<<"*A">>, <<"Cu">>, <<<<Zero>>>>)
    /\ op = "init"
    /\ args = <<>>
    /\ result = NoResult
    /\ warned = {}
    /\ fits = 0
    /\ des = NoDescriptors
    /\ _groups = None

\* eads.add_adsorbate(name, energies)
AddAdsorbate(name, energies) ==
    /\ Len(data.columns) < MaxAxis \/ add_adsorbate(data, name, energies).result.kind = "raise"
    /\ op' = "add_adsorbate"
    /\ args' = <<name, energies>>
    /\ \E done \in {add_adsorbate(data, name, energies)} :
           /\ result' = done.result
           /\ data' = done.data
    /\ warned' = {}
    /\ UNCHANGED <<relation, reaction, fits, des, _groups>>

\* eads.add_sample(name, energies)
AddSample(name, energies) ==
    /\ Len(data.index) < MaxAxis \/ add_sample(data, name, energies).result.kind = "raise"
    /\ op' = "add_sample"
    /\ args' = <<name, energies>>
    /\ \E done \in {add_sample(data, name, energies)} :
           /\ result' = done.result
           /\ data' = done.data
    /\ warned' = {}
    /\ UNCHANGED <<relation, reaction, fits, des, _groups>>

\* eads.remove_adsorbate(name)
RemoveAdsorbate(name) ==
    /\ op' = "remove_adsorbate"
    /\ args' = <<name>>
    /\ \E done \in {remove_adsorbate(data, name)} :
           /\ result' = done.result
           /\ data' = done.data
    /\ warned' = {}
    /\ UNCHANGED <<relation, reaction, fits, des, _groups>>

\* eads.remove_sample(name)
RemoveSample(name) ==
    /\ op' = "remove_sample"
    /\ args' = <<name>>
    /\ \E done \in {remove_sample(data, name)} :
           /\ result' = done.result
           /\ data' = done.data
    /\ warned' = {}
    /\ UNCHANGED <<relation, reaction, fits, des, _groups>>

\* eads.sort_data(targets)
SortData(targets) ==
    /\ op' = "sort_data"
    /\ args' = <<targets>>
    /\ \E done \in {sort_data(data, targets)} :
           /\ result' = done.result
           /\ data' = done.data
    /\ warned' = {}
    /\ UNCHANGED <<relation, reaction, fits, des, _groups>>

\* The targets given to sort_data: the valid ones and two invalid ones
\* (tests/data/test_eads.py:118-145).
SortTargets == (SUBSET {"column", "row"}) \cup {{"invalid", "row"}, {"column", "row", "invalid"}}

NextEads ==
    \/ \E name \in AdsorbateNames, energies \in EnergyLists : AddAdsorbate(name, energies)
    \/ \E name \in SampleNames, energies \in EnergyLists : AddSample(name, energies)
    \/ \E name \in AdsorbateNames : RemoveAdsorbate(name)
    \/ \E name \in SampleNames : RemoveSample(name)
    \/ \E targets \in SortTargets : SortData(targets)

SpecEads == InitEads /\ [][NextEads]_vars

\* C20: add_adsorbate and add_sample raise ValueError when the vector's
\* length differs from the length of the existing axis or when the name is
\* already on the axis added to, and a call that raises leaves the table
\* (names, order and values) as it was.
C20_RejectedAddLeavesTable ==
    [][/\ op' = "add_adsorbate" =>
           /\ (Len(args'[2]) # Len(data.index) \/ InAxis(args'[1], data.columns))
                  => result' = Raise("ValueError")
           /\ result'.kind = "raise" => data' = data
       /\ op' = "add_sample" =>
           /\ (Len(args'[2]) # Len(data.columns) \/ InAxis(args'[1], data.index))
                  => result' = Raise("ValueError")
           /\ result'.kind = "raise" => data' = data]_vars

C20_Witness ==
    /\ op = "add_adsorbate"
    /\ args = <<"*B", <<Num(2), Num(2)>>>>
    /\ result = Raise("ValueError")
    /\ data = DataFrame(<<"*A", "*B">>, <<"Cu", "Ni">>, <<<<Zero, Num(1)>>, <<Num(1), Num(1)>>>>)

\* The names of an axis are pairwise different.
UniqueNames(axis) == \A j, k \in 1..Len(axis) : j # k => axis[j] # axis[k]

\* C21: from a table with unique adsorbate names and unique sample names,
\* after any sequence of add_adsorbate, add_sample, remove_adsorbate,
\* remove_sample and sort_data calls, accepted or rejected, the table has
\* one row per sample, every row has one value per adsorbate (so every
\* column holds exactly one value per sample), and the names of each axis
\* are unique.
C21_TableShape ==
    /\ Len(data.values) = Len(data.index)
    /\ \A r \in 1..Len(data.values) : Len(data.values[r]) = Len(data.columns)
    /\ UniqueNames(data.columns)
    /\ UniqueNames(data.index)

\* A table edited with all five methods: a sample added after the first one,
\* adsorbates added out of order, and the first sample then removed.
C21_Witness ==
    /\ op = "remove_sample"
    /\ result = Return(None)
    /\ data.columns = <<"*C", "*A">>
    /\ data.index = <<"Ni">>
    /\ Len(data.values[1]) = 2

\* C23: sort_data is idempotent: after a sort_data call that the targets
\* check accepted, a second call with the same targets leaves the adsorbate
\* order, the sample order and the cell values as they are.
C23_SortIdempotent ==
    (op = "sort_data" /\ result = Return(None))
        => sort_data(data, args[1]) = [result |-> Return(None), data |-> data]

\* A table of two adsorbates and two samples whose columns a sort_data call
\* has put in order and whose rows, not among the targets, are still out of
\* order.
C23_Witness ==
    /\ op = "sort_data"
    /\ args = <<{"column"}>>
    /\ result = Return(None)
    /\ data.columns = <<"*A", "*C">>
    /\ data.index = <<"Pt", "Cu">>
    /\ data.values[1] = <<Num(1), Num(2)>>

(***************************************************************************)
(* Eads.groups: the setter of scaling/data/eads.py lines 114-122 and the   *)
(* constructor of lines 27-36.                                             *)
(***************************************************************************)
\* A groups argument that is a dict: its items in order, each a Group.
Dict(items) == [type |-> "dict", items |-> items]

\* list.sort(): the list is put in order in place and None is returned.
\* The lists of line 119 are temporaries (columns.values.tolist() and
\* total), so only the returned value is seen.
list_sort(lst) == None

\* Eads.adsorabtes: the column headers (lines 80-84).
adsorabtes(df) == df.columns

\* The groups setter: the outcome and the groups stored afterwards.
Eads_groups(df, groups, stored) ==
    IF groups.type # "NoneType"
       /\ list_sort(adsorabtes(df)) # list_sort(all_members(groups.items, 1))
    THEN [result |-> Raise("RuntimeError"), _groups |-> stored]
    ELSE [result |-> Return(None), _groups |-> groups]

\* The tables given: one sample, and the adsorbates in several orders.
EadsColumns ==
    {<<>>, <<"*A">>, <<"*A", "*B">>, <<"*B", "*A">>, <<"*C", "*A">>, <<"*A", "*B", "*C">>}

EadsTables ==
    {DataFrame(columns, <<"Cu">>, <<[c \in 1..Len(columns) |-> Num(c)]>>) : columns \in EadsColumns}

\* The groups given: None, groups that list the adsorbates of one of the
\* tables, and groups that miss some, name others or name one twice.
EadsGroups ==
    {None,
     Dict(<<>>),
     Dict(<<Group("carbon", <<"*A">>)>>),
     Dict(<<Group("carbon", <<"*A", "*B">>)>>),
     Dict(<<Group("carbon", <<"*B">>), Group("oxygen", <<"*A">>)>>),
     Dict(<<Group("carbon", <<"*A">>), Group("oxygen", <<"*C">>)>>),
     Dict(<<Group("carbon", <<"*A", "*B">>), Group("oxygen", <<"*C">>)>>),
     Dict(<<Group("carbon", <<"*A", "*A">>)>>),
     Dict(<<Group("carbon", <<"*Z">>)>>),
     Dict(<<Group("carbon", <<"*A", "*B">>), Group("oxygen", <<"*Z">>)>>)}

\* Eads(data) for one of the tables: groups defaults to None.
InitGroups ==
    /\ relation = NoRelation
    /\ reaction = <<>>
    /\ data \in EadsTables
    /\ op = "init"
    /\ args = <<>>
    /\ result = NoResult
    /\ warned = {}
    /\ fits = 0
    /\ des = NoDescriptors
    /\ _groups = None

\* eads = Eads(table, groups): the data setter stores the frame of floats,
\* then the groups setter runs on the new object; the name is bound to the
\* new object unless the constructor raises.
NewEads(table, groups) ==
    /\ op' = "Eads"
    /\ args' = <<groups, table>>
    /\ \E made \in {Eads_groups(table, groups, None)} :
           /\ result' = made.result
           /\ data' = IF made.result.kind = "raise" THEN data ELSE table
           /\ _groups' = IF made.result.kind = "raise" THEN _groups ELSE made._groups
    /\ warned' = {}
    /\ UNCHANGED <<relation, reaction, fits, des>>

\* eads.groups = groups
SetGroups(groups) ==
    /\ op' = "groups"
    /\ args' = <<groups>>
    /\ \E done \in {Eads_groups(data, groups, _groups)} :
           /\ result' = done.result
           /\ _groups' = done._groups
    /\ warned' = {}
    /\ UNCHANGED <<relation, reaction, data, fits, des>>

NextGroups ==
    \/ \E table \in EadsTables, groups \in EadsGroups : NewEads(table, groups)
    \/ \E groups \in EadsGroups : SetGroups(groups)

SpecGroups == InitGroups /\ [][NextGroups]_vars

\* The two lists hold the same names the same number of times (their sorted
\* copies are equal).
SameNames(a, b) ==
    \A n \in {a[k] : k \in 1..Len(a)} \cup {b[k] : k \in 1..Len(b)} :
        Cardinality({k \in 1..Len(a) : a[k] = n}) = Cardinality({k \in 1..Len(b) : b[k] = n})

\* C22: assigning groups to an Eads, also through the constructor, raises
\* RuntimeError whenever the adsorbate names listed across all groups do not
\* match the adsorbate names of the table, and the groups stored are None or
\* groups that match the table.
C22_GroupsMatchTable ==
    /\ (/\ op = "Eads"
        /\ args[1].type # "NoneType"
        /\ ~SameNames(args[2].columns, all_members(args[1].items, 1)))
           => result = Raise("RuntimeError")
    /\ (/\ op = "groups"
        /\ args[1].type # "NoneType"
        /\ ~SameNames(data.columns, all_members(args[1].items, 1)))
           => result = Raise("RuntimeError")
    /\ _groups.type # "NoneType"
           => SameNames(data.columns, all_members(_groups.items, 1))

(***************************************************************************)
(* Assignments to a Species that is a key of a ReactionStep's reactants,   *)
(* and to the reactants (scaling/data/species.py lines 67-129,             *)
(* scaling/data/reaction.py lines 97-114).  reaction holds the one step    *)
(* followed.                                                               *)
(***************************************************************************)
\* The energy setter (species.py lines 108-116): the floats given pass the
\* type check; an energy >= 0 gives a warning; float(energy) is stored.
Species_energy(energy) ==
    [result |-> Return(energy),
     warned |-> IF RLeq(Zero, energy) THEN {"Non-negative energy found."} ELSE {}]

\* The correction setter (lines 124-129).
Species_correction(correction) == [result |-> Return(correction), warned |-> {}]

\* The adsorbed setter (lines 73-78); the values given are booleans.
Species_adsorbed(adsorbed) == [result |-> Return(adsorbed), warned |-> {}]

\* The state setter (lines 88-96).
valid_states == {"g", "l", "s", "aq", "NA"}

Species_state(state) ==
    IF state \notin valid_states
    THEN [result |-> Raise("ValueError"), warned |-> {}]
    ELSE [result |-> Return(state), warned |-> {}]

\* The reactants setter (reaction.py lines 97-114): the maps given hold
\* Species and floats, so the type checks pass; a negative number gives a
\* warning; a new dict with the same keys is stored.
ReactionStep_reactants(reactants) ==
    [result |-> Return(reactants),
     warned |-> IF \E k \in 1..Len(reactants) : RLt(reactants[k].num, Zero)
                THEN {"Negative stoichiometric number found."}
                ELSE {}]

\* The values assigned.
AssignedEnergies == {Num(-6), Rat(-119999, 20000), Zero}
AssignedCorrections == {Num(3), Rat(7, 2)}
AssignedStates == {"NA", "g", "plasma"}
AssignedReactants ==
    {<<>>,
     <<[spec |-> species_CO2, num |-> Num(1)]>>,
     <<[spec |-> species_CO2, num |-> Num(-1)]>>,
     <<[spec |-> species_CO2, num |-> Num(1)], [spec |-> species_COOH, num |-> Num(2)]>>}

\* step = ReactionStep({CO2: 1}, {COOH: 1}) (tests/data/test_reaction.py)
InitMutation ==
    /\ relation = NoRelation
    /\ reaction = <<step_0>>
    /\ data = NoData
    /\ op = "init"
    /\ args = <<>>
    /\ result = NoResult
    /\ warned = {}
    /\ fits = 0
    /\ des = NoDescriptors
    /\ _groups = None

\* The step after an assignment to one attribute of its k-th reactant key:
\* the dict holds the Species object itself, so the key changes with it.
key_assigned(step, k, field, done) ==
    IF done.result.kind = "raise"
    THEN step
    ELSE [step EXCEPT !.reactants[k].spec[field] = done.result.value]

\* spec.<field> = value, for the k-th key spec of step.reactants
SetSpeciesField(k, field, value, done) ==
    /\ k \in 1..Len(reaction[1].reactants)
    /\ op' = field
    /\ args' = <<k, value>>
    /\ result' = IF done.result.kind = "raise" THEN done.result ELSE Return(None)
    /\ warned' = done.warned
    /\ reaction' = <<key_assigned(reaction[1], k, field, done)>>
    /\ UNCHANGED <<relation, data, fits, des, _groups>>

\* step.reactants = reactants
SetReactants(reactants) ==
    /\ op' = "reactants"
    /\ args' = <<reactants>>
    /\ \E done \in {ReactionStep_reactants(reactants)} :
           /\ result' = Return(None)
           /\ warned' = done.warned
           /\ reaction' = <<[reaction[1] EXCEPT !.reactants = done.result.value]>>
    /\ UNCHANGED <<relation, data, fits, des, _groups>>

NextMutation ==
    \/ \E k \in 1..MaxSide, energy \in AssignedEnergies :
           SetSpeciesField(k, "energy", energy, Species_energy(energy))
    \/ \E k \in 1..MaxSide, correction \in AssignedCorrections :
           SetSpeciesField(k, "correction", correction, Species_correction(correction))
    \/ \E k \in 1..MaxSide, adsorbed \in BOOLEAN :
           SetSpeciesField(k, "adsorbed", adsorbed, Species_adsorbed(adsorbed))
    \/ \E k \in 1..MaxSide, state \in AssignedStates :
           SetSpeciesField(k, "state", state, Species_state(state))
    \/ \E reactants \in AssignedReactants : SetReactants(reactants)

SpecMutation == InitMutation /\ [][NextMutation]_vars

\* C27: Species and ReactionStep are immutable once validated: no operation
\* changes a Species' name, energy, adsorbed flag, correction or state, nor
\* a ReactionStep's reactant and product maps, so a Species that is a key
\* of a stoichiometric map keeps its hash.
C27_ValueObjectsImmutable ==
    [][/\ reaction' = reaction
       /\ \A k \in 1..Len(reaction[1].reactants) :
              Species___hash__(reaction'[1].reactants[k].spec)
                  = Species___hash__(reaction[1].reactants[k].spec)]_vars

====
